---------------------------- MODULE Spec2Model ----------------------------
(***************************************************************************)
(* Verification model of the layer7waf data-plane primitives:              *)
(*   - IpTrie (crates/ip-reputation/src/trie.rs)                           *)
(*   - IpReputation (crates/ip-reputation/src/lib.rs)                      *)
(*   - TokenBucketLimiter / SlidingWindowLimiter (crates/rate-limit)       *)
(*   - BotDetector, classify_user_agent, compute_bot_score                 *)
(*   - challenge / CAPTCHA cookie codecs                                   *)
(*   - AntiScraper (crates/anti-scraping)                                  *)
(*   - Layer7WafProxy::request_filter (crates/proxy/src/service.rs)        *)
(* Each component has its own specification (SpecTrie, SpecRep, ...) over  *)
(* its own variables; the variables of the other components stay fixed.    *)
(***************************************************************************)
EXTENDS Integers, Sequences, FiniteSets, TLC

VARIABLES
  \* ---- IpTrie ----
  trie,          \* the IpTrie under test: [v4 |-> node map, v6 |-> node map]
  inserted,      \* history: the networks passed to insert so far
  lookup,        \* last contains() call: [addr, res] or NoLookup
  \* ---- IpReputation ----
  blocklist,     \* ArcSwap<IpTrie>: the trie the pointer refers to
  allowlist,     \* ArcSwap<IpTrie>
  blockNets,     \* history: networks the current blocklist trie was built from
  allowNets,     \* history: networks the current allowlist trie was built from
  rl,            \* the reload_from_config call in progress (position, inputs)
  chk,           \* the check(addr) call in progress (position, loads, result)
  \* ---- rate limiters ----
  clock,         \* the monotonic clock (Instant::now()), in ticks
  tbCfg,         \* TokenBucketLimiter: [rps, burst] given to new()
  buckets,       \* TokenBucketLimiter.buckets: key -> [tokens, last_refill]
  tbThr,         \* per thread: the token-bucket check call in progress
  tbCl,          \* the cleanup call in progress
  tbHist,        \* history per key, for the properties
  swCfg,         \* SlidingWindowLimiter: [rps, window_secs] given to new()
  windows,       \* SlidingWindowLimiter.windows: key -> SlidingWindowState
  swThr,         \* per thread: the sliding-window check call in progress
  swCl,          \* the cleanup call in progress
  swHist,        \* history per key, for the properties
  unixNow,       \* SystemTime::now() in seconds since the epoch
  ckCfg,         \* [secret, ttl_secs] of the challenge cookies
  ckPage,        \* the challenge page last issued
  ckCookie,      \* the cookie the browser holds
  ckVerdict,     \* the last verification of a cookie
  botCfg,        \* BotDetector.config
  sessions,      \* BotDetector.sessions: client ip -> BotSession
  botRes,        \* the last request checked and BotDetector::check's result
  \* ---- AntiScraper ----
  scCfg,         \* AntiScraper.config
  scSessions,    \* AntiScraper.sessions: client ip -> ScrapingSession
  scRes,         \* the last check_request call and its result
  \* ---- Layer7WafProxy ----
  plCfg,         \* what new() built: rate limiter or none, the route's WAF mode
  plConn,        \* the connection of the run: peer address, X-Forwarded-For
  plRes,         \* the last request_filter call: its context and outcome
  \* ---- AntiScraper responses ----
  scOut,         \* the last process_response call and what it returned
  wmk,           \* a watermark injected into a body and read back
  \* ---- UpstreamSelector ----
  usCfg,         \* the upstream's configuration: its name and servers
  usWeighted,    \* weighted_indices, built by from_config
  usCounter,     \* counter, the AtomicUsize select advances
  usThr,         \* each caller of upstream_peer: where it is in select, what it got
  usDone,        \* the selections made: the counter value and the server returned
  \* ---- RateLimiter ----
  lmArc,         \* the Arc<RateLimiterInner> allocations: each the kind and the map of a limiter
  lmRef,         \* the RateLimiter values: which allocation each one's inner points to (0: none)
  lmCall,        \* per RateLimiter value: the check call in progress through it
  lmOut,         \* the last check through a RateLimiter value, and the entries the checks wrote
  \* ---- load_blocklist / load_allowlist ----
  loaded,        \* the last load_blocklist or load_allowlist call and what it returned
  \* ---- Route matching: find_route, the WAF stage and upstream_peer ----
  rtCfg,         \* the routes and upstreams of the configuration, and whether waf_engine is Some
  rtRes          \* the request's context: route_index, the stages' answers, the upstream chosen

trieVars == <<trie, inserted, lookup>>
repVars  == <<blocklist, allowlist, blockNets, allowNets, rl, chk>>
tbVars   == <<tbCfg, buckets, tbThr, tbCl, tbHist>>
swVars   == <<swCfg, windows, swThr, swCl, swHist>>
ckVars   == <<unixNow, ckCfg, ckPage, ckCookie, ckVerdict>>
botVars  == <<botCfg, sessions, botRes>>
scVars   == <<scCfg, scSessions, scRes>>
plVars   == <<plCfg, plConn, plRes>>
rwVars   == <<scOut, wmk>>
usVars   == <<usCfg, usWeighted, usCounter, usThr, usDone>>
lmVars   == <<lmArc, lmRef, lmCall, lmOut>>
ldVars   == <<loaded>>
rtVars   == <<rtCfg, rtRes>>
vars     == <<trieVars, repVars, clock, tbVars, swVars, ckVars, botVars, scVars, plVars, rwVars, usVars, lmVars, ldVars, rtVars>>

\* What the operations of one component leave alone: the other components.
TrieFrame == UNCHANGED <<repVars, clock, tbVars, swVars, ckVars, botVars, scVars, plVars, rwVars, usVars, lmVars, ldVars, rtVars>>
RepFrame  == UNCHANGED <<trieVars, clock, tbVars, swVars, ckVars, botVars, scVars, plVars, rwVars, usVars, lmVars, ldVars, rtVars>>
TbFrame   == UNCHANGED <<trieVars, repVars, swVars, ckVars, botVars, scVars, plVars, rwVars, usVars, lmVars, ldVars, rtVars>>
SwFrame   == UNCHANGED <<trieVars, repVars, tbVars, ckVars, botVars, scVars, plVars, rwVars, usVars, lmVars, ldVars, rtVars>>
CkFrame   == UNCHANGED <<trieVars, repVars, clock, tbVars, swVars, botVars, scVars, plVars, rwVars, usVars, lmVars, ldVars, rtVars>>
ScFrame   == UNCHANGED <<trieVars, repVars, tbVars, swVars, ckVars, botVars, plVars, rwVars, usVars, lmVars, ldVars, rtVars>>
BotFrame  == UNCHANGED <<trieVars, repVars, clock, tbVars, swVars,
                         unixNow, ckCfg, ckCookie, ckVerdict, scVars, plVars, rwVars, usVars, lmVars, ldVars, rtVars>>
PlFrame   == UNCHANGED <<trieVars, repVars, tbCfg, tbThr, tbCl, tbHist, swVars,
                         unixNow, ckCfg, ckCookie, ckVerdict, botCfg, scVars,
                         plCfg, plConn, rwVars, usVars, lmVars, ldVars, rtVars>>

-----------------------------------------------------------------------------
(* Bounds                                                                  *)

V4Bits == 1          \* width of an IPv4 address in the model (32 in the code)
V6Bits == 2          \* width of an IPv6 address in the model (128 in the code)
MaxInserts == 2      \* networks inserted into the trie under test
MaxLines == 1        \* lines of a reputation list file
TicksPerSec == 2     \* clock resolution of the model: ticks per second
MaxTicks == 2        \* single clock ticks taken, besides one long idle period
MaxRps == 2          \* largest rps given to a limiter
MaxBurst == 2        \* largest burst given to the token bucket
MaxWindowSecs == 2   \* largest window_secs given to the sliding window
SwMaxTicks == 6      \* clock ticks taken in the sliding-window runs
UnixStart == 8       \* the wall clock, in seconds, when the runs start
MaxSecs == 2         \* seconds that pass on the wall clock
MaxTtl == 1          \* largest ttl_secs of a challenge cookie
MaxRequests == 2     \* requests a client sends the anti-scraper in one run
MAX_BODY_BUFFER == 9 \* largest body process_response rewrites, in bytes (2 MiB in the code)
MaxBody == 2         \* length of the short response bodies, every one of which is tried
MaxServers == 2      \* servers of an upstream
MaxWeight == 2       \* largest weight of a server
UsizeBits == 3       \* width of the selector's counter (usize in the code)
TbLogMax == 3        \* admitted token-bucket checks kept in a key's history
MaxRecords == 3      \* record_request calls on a session on its own
SessMaxTicks == 6    \* clock ticks taken in the runs of a session on its own
MaxRoutes == 2       \* routes of a configuration
MaxLoadLines == 3    \* lines of a list file given to load_blocklist / load_allowlist
LmMaxTicks == 2      \* clock ticks taken in the runs of the RateLimiter facade

-----------------------------------------------------------------------------
(* Addresses and networks                                                  *)

Pow2(n) == 2 ^ n

Width(fam) == IF fam = "v4" THEN V4Bits ELSE V6Bits

Families == {"v4", "v6"}

\* IpAddr: an address family and the address value.
Addrs == [fam : {"v4"}, val : 0 .. (Pow2(V4Bits) - 1)]
           \cup [fam : {"v6"}, val : 0 .. (Pow2(V6Bits) - 1)]

\* IpNet as parsed: any address with any prefix length of its family.
Nets == { n \in [fam : Families, val : 0 .. (Pow2(V6Bits) - 1), plen : 0 .. V6Bits] :
            /\ n.val < Pow2(Width(n.fam))
            /\ n.plen <= Width(n.fam) }

\* IpNet::network(): the address with the host bits cleared.
Network(n) ==
  LET host == Pow2(Width(n.fam) - n.plen)
  IN  [fam |-> n.fam, val |-> (n.val \div host) * host]

\* The canonical form of a network (host bits cleared).
Canon(n) == [fam |-> n.fam, val |-> Network(n).val, plen |-> n.plen]

\* Membership of an address in a CIDR network, by mask comparison
\* (the meaning of "a lies inside n"; independent of the trie walk).
InNet(a, n) ==
  /\ a.fam = n.fam
  /\ a.val \div Pow2(Width(n.fam) - n.plen) = n.val \div Pow2(Width(n.fam) - n.plen)

InAny(a, nets) == \E n \in nets : InNet(a, n)

-----------------------------------------------------------------------------
(* IpTrie                                                                  *)

\* ip_to_bits: the bits of the address, most significant first.
ip_to_bits(a) ==
  [i \in 1 .. Width(a.fam) |-> (a.val \div Pow2(Width(a.fam) - i)) % 2]

\* TrieNode::new() as a root: only the root node, not terminal.  A node map
\* holds the paths (bit sequences from the root) of the allocated nodes and
\* of the terminal ones.
TrieNodeNew == [nodes |-> {<<>>}, term |-> {}]

\* IpTrie::new()
IpTrieNew == [v4 |-> TrieNodeNew, v6 |-> TrieNodeNew]

Take(s, n) == SubSeq(s, 1, IF n < Len(s) THEN n ELSE Len(s))

\* IpTrie::insert: walk (creating) prefix_len nodes, mark the last terminal.
TrieInsert(t, n) ==
  LET addr == Network(n)
      bits == ip_to_bits(addr)
      path == Take(bits, n.plen)
      root == t[n.fam]
      new  == [nodes |-> root.nodes \cup { SubSeq(path, 1, i) : i \in 0 .. Len(path) },
               term  |-> root.term \cup {path}]
  IN  [t EXCEPT ![n.fam] = new]

\* The descent loop of IpTrie::contains from depth i (bits 1..i consumed).
RECURSIVE ContainsWalk(_, _, _)
ContainsWalk(root, bits, i) ==
  IF i >= Len(bits) THEN FALSE
  ELSE LET child == SubSeq(bits, 1, i + 1)
       IN  IF child \notin root.nodes THEN FALSE
           ELSE IF child \in root.term THEN TRUE
           ELSE ContainsWalk(root, bits, i + 1)

ContainsNoRootCheck(t, a) == ContainsWalk(t[a.fam], ip_to_bits(a), 0)

\* IpTrie::contains
TrieContains(t, a) ==
  LET root == t[a.fam]
  IN  IF <<>> \in root.term THEN TRUE
      ELSE ContainsWalk(root, ip_to_bits(a), 0)

\* count_terminals over both roots: IpTrie::len
TrieLen(t) == Cardinality(t.v4.term) + Cardinality(t.v6.term)

NoLookup == [addr |-> [fam |-> "none", val |-> 0], res |-> FALSE]

\* insert(network)
Insert(n) ==
  /\ Cardinality(inserted) < MaxInserts
  /\ trie' = TrieInsert(trie, n)
  /\ inserted' = inserted \cup {Canon(n)}
  /\ UNCHANGED lookup /\ TrieFrame

\* contains(addr)
Contains(a) ==
  /\ lookup' = [addr |-> a, res |-> TrieContains(trie, a)]
  /\ UNCHANGED <<trie, inserted>> /\ TrieFrame

TrieInit ==
  /\ trie = IpTrieNew
  /\ inserted = {}
  /\ lookup = NoLookup

-----------------------------------------------------------------------------
(* IpReputation                                                            *)

\* The lines a list file is made of: empty, a # comment, an unparseable
\* line, a CIDR line, a bare IP line.
FileLines ==
  { [kind |-> "empty"], [kind |-> "comment"], [kind |-> "bad"],
    [kind |-> "cidr", net |-> [fam |-> "v4", val |-> 1, plen |-> 0]],
    [kind |-> "ip", addr |-> [fam |-> "v6", val |-> 1]] }

Files == UNION { [1 .. n -> FileLines] : n \in 0 .. MaxLines }

\* A configured path: none, a file that cannot be opened, or a readable file.
NoPath == [some |-> FALSE]
BadPath == [some |-> TRUE, ok |-> FALSE]
Paths == {NoPath, BadPath} \cup { [some |-> TRUE, ok |-> TRUE, file |-> f] : f \in Files }

\* One iteration of the line loop of load_trie_from_file.
LoadLine(t, line) ==
  IF line.kind \in {"empty", "comment"} THEN t
  ELSE IF line.kind = "cidr" THEN TrieInsert(t, line.net)
  ELSE IF line.kind = "ip"
    THEN TrieInsert(t, [fam |-> line.addr.fam, val |-> line.addr.val,
                        plen |-> Width(line.addr.fam)])
  ELSE t

\* load_trie_from_file on a readable file: the trie built line by line.
RECURSIVE LoadLines(_, _, _)
LoadLines(t, f, i) ==
  IF i > Len(f) THEN t ELSE LoadLines(LoadLine(t, f[i]), f, i + 1)

load_trie_from_file(f) == LoadLines(IpTrieNew, f, 1)

\* History: the networks the lines of a file denote.
FileNets(f) ==
  { Canon(f[i].net) : i \in { j \in 1 .. Len(f) : f[j].kind = "cidr" } }
    \cup { [fam |-> f[i].addr.fam, val |-> f[i].addr.val, plen |-> Width(f[i].addr.fam)] :
             i \in { j \in 1 .. Len(f) : f[j].kind = "ip" } }

\* What IpReputation::check returns on a pair of lists that does not change
\* during the call: the allowlist decides first.
Expected(a, pair) ==
  IF InAny(a, pair.allow) THEN "Allow"
  ELSE IF InAny(a, pair.block) THEN "Block"
  ELSE "None"

CurPair == [allow |-> allowNets, block |-> blockNets]

\* The reload_from_config call: where it is, whether it returned an error,
\* and (history) the tries the two pointers referred to when it was called.
RlIdle == [pc |-> "idle", err |-> FALSE,
           old |-> [blocklist |-> IpTrieNew, allowlist |-> IpTrieNew]]
ChkIdle == [pc |-> "idle", addr |-> [fam |-> "none", val |-> 0], res |-> "None",
            in0 |-> [allow |-> FALSE, block |-> FALSE], okRes |-> {},
            overlap |-> FALSE, quiet |-> TRUE]

\* IpReputation::new()
RepInit ==
  /\ blocklist = IpTrieNew
  /\ allowlist = IpTrieNew
  /\ blockNets = {}
  /\ allowNets = {}
  /\ rl = RlIdle
  /\ chk = ChkIdle

\* History kept for a check in flight: a reload has begun during it.
ChkOnReloadBegin ==
  IF chk.pc \in {"allow", "block"}
    THEN [chk EXCEPT !.overlap = TRUE, !.quiet = FALSE]
    ELSE chk

\* History kept for a check: a reload that overlapped it has returned, and
\* the pair of lists it leaves is one more complete snapshot: okRes gains
\* the result check would return on it.
ChkOnReloadEnd(c, pair) ==
  IF c.overlap THEN [c EXCEPT !.okRes = @ \cup {Expected(c.addr, pair)},
                              !.overlap = (c.pc \in {"allow", "block"})]
  ELSE c

\* reload_from_config, first match: the blocklist path.
\* Some(path): load_blocklist(path)? -- an error returns before anything is
\* stored; None: the blocklist is reset to an empty trie.
ReloadBlocklist(p) ==
  /\ rl.pc = "idle"
  /\ IF p.some /\ ~ p.ok
       THEN /\ rl' = [pc |-> "idle", err |-> TRUE,
                       old |-> [blocklist |-> blocklist, allowlist |-> allowlist]]
            /\ chk' = chk
            /\ UNCHANGED <<blocklist, blockNets>>
       ELSE /\ rl' = [pc |-> "allow", err |-> FALSE,
                       old |-> [blocklist |-> blocklist, allowlist |-> allowlist]]
            /\ chk' = ChkOnReloadBegin
            /\ blocklist' = IF p.some THEN load_trie_from_file(p.file) ELSE IpTrieNew
            /\ blockNets' = IF p.some THEN FileNets(p.file) ELSE {}
  /\ UNCHANGED <<allowlist, allowNets>> /\ RepFrame

\* reload_from_config, second match: the allowlist path, then return.
ReloadAllowlist(p) ==
  /\ rl.pc = "allow"
  /\ IF p.some /\ ~ p.ok
       THEN /\ rl' = [rl EXCEPT !.pc = "idle", !.err = TRUE]
            /\ UNCHANGED <<allowlist, allowNets>>
       ELSE /\ rl' = [rl EXCEPT !.pc = "idle", !.err = FALSE]
            /\ allowlist' = IF p.some THEN load_trie_from_file(p.file) ELSE IpTrieNew
            /\ allowNets' = IF p.some THEN FileNets(p.file) ELSE {}
  /\ chk' = ChkOnReloadEnd(chk, [allow |-> allowNets', block |-> blockNets])
  /\ UNCHANGED <<blocklist, blockNets>> /\ RepFrame

\* check(addr) is called.  History: in0 records whether the address lies in
\* the lists in effect at the call; okRes starts with the result on that
\* pair (the pair before the reload, if one is running).
CheckBegin(a) ==
  /\ chk.pc \in {"idle", "done"}
  /\ chk' = [pc |-> "allow", addr |-> a, res |-> "None",
             in0 |-> [allow |-> InAny(a, allowNets), block |-> InAny(a, blockNets)],
             okRes |-> {Expected(a, CurPair)},
             overlap |-> (rl.pc # "idle"),
             quiet |-> (rl.pc = "idle")]
  /\ UNCHANGED <<blocklist, allowlist, blockNets, allowNets, rl>> /\ RepFrame

CheckIsBlockedFirst ==
  /\ chk.pc = "allow"
  /\ IF TrieContains(blocklist, chk.addr)
       THEN chk' = [chk EXCEPT !.pc = "done", !.res = "Block"]
       ELSE chk' = [chk EXCEPT !.pc = "block"]
  /\ UNCHANGED <<blocklist, allowlist, blockNets, allowNets, rl>> /\ RepFrame

\* check: is_allowed(addr) -- load the allowlist pointer, look the address up.
CheckIsAllowed ==
  /\ chk.pc = "allow"
  /\ IF TrieContains(allowlist, chk.addr)
       THEN chk' = [chk EXCEPT !.pc = "done", !.res = "Allow"]
       ELSE chk' = [chk EXCEPT !.pc = "block"]
  /\ UNCHANGED <<blocklist, allowlist, blockNets, allowNets, rl>> /\ RepFrame

\* check: else is_blocked(addr) -- load the blocklist pointer, look it up.
CheckIsBlocked ==
  /\ chk.pc = "block"
  /\ chk' = [chk EXCEPT !.pc = "done",
               !.res = IF TrieContains(blocklist, chk.addr) THEN "Block" ELSE "None"]
  /\ UNCHANGED <<blocklist, allowlist, blockNets, allowNets, rl>> /\ RepFrame

RepNext ==
  \/ \E p \in Paths : ReloadBlocklist(p)
  \/ \E p \in Paths : ReloadAllowlist(p)
  \/ \E a \in Addrs : CheckBegin(a)
  \/ CheckIsAllowed
  \/ CheckIsBlocked

-----------------------------------------------------------------------------
(* load_blocklist / load_allowlist and the count they return               *)

\* The lines of the files loaded: those of FileLines, and a second way of
\* writing the network 0.0.0.0/0
LoadFileLines == FileLines \cup {[kind |-> "cidr", net |-> [fam |-> "v4", val |-> 0, plen |-> 0]]}

LoadFiles == UNION { [1 .. n -> LoadFileLines] : n \in 0 .. MaxLoadLines }

LoadPaths == {BadPath} \cup { [some |-> TRUE, ok |-> TRUE, file |-> f] : f \in LoadFiles }

\* The lines of a file that parse, as a CIDR or as a bare IP
ParsedLines(f) == { i \in 1 .. Len(f) : f[i].kind \in {"cidr", "ip"} }

\* A count of the lines that parsed
LoadedCountLines(f) == Cardinality(ParsedLines(f))

\* let trie = load_trie_from_file(path)?; let count = trie.len();
LoadedCount(f) == TrieLen(load_trie_from_file(f))

NoLoad == [list |-> "none", path |-> BadPath, ok |-> FALSE, count |-> 0]

LdAside == loaded = NoLoad

LdFrame ==
  UNCHANGED <<trieVars, rl, chk, clock, tbVars, swVars, ckVars, botVars, scVars, plVars,
              rwVars, usVars, lmVars, rtVars>>

\* load_blocklist(path), the first load after new(): Err when the file
\* cannot be opened, else the trie is stored and Ok(count) returned.
LoadBlocklist(p) ==
  /\ rl.pc = "idle" /\ loaded = NoLoad
  /\ IF p.ok
       THEN /\ blocklist' = load_trie_from_file(p.file)
            /\ blockNets' = FileNets(p.file)
            /\ loaded' = [list |-> "blocklist", path |-> p, ok |-> TRUE,
                          count |-> LoadedCount(p.file)]
       ELSE /\ UNCHANGED <<blocklist, blockNets>>
            /\ loaded' = [list |-> "blocklist", path |-> p, ok |-> FALSE, count |-> 0]
  /\ UNCHANGED <<allowlist, allowNets>> /\ LdFrame

\* load_allowlist(path)
LoadAllowlist(p) ==
  /\ rl.pc = "idle" /\ loaded = NoLoad
  /\ IF p.ok
       THEN /\ allowlist' = load_trie_from_file(p.file)
            /\ allowNets' = FileNets(p.file)
            /\ loaded' = [list |-> "allowlist", path |-> p, ok |-> TRUE,
                          count |-> LoadedCount(p.file)]
       ELSE /\ UNCHANGED <<allowlist, allowNets>>
            /\ loaded' = [list |-> "allowlist", path |-> p, ok |-> FALSE, count |-> 0]
  /\ UNCHANGED <<blocklist, blockNets>> /\ LdFrame

LdNext ==
  \/ \E p \in LoadPaths : LoadBlocklist(p)
  \/ \E p \in LoadPaths : LoadAllowlist(p)

-----------------------------------------------------------------------------
(* Time                                                                    *)

Min(a, b) == IF a < b THEN a ELSE b

Keys == {"k1"}
Threads == {"t1", "t2"}

\* TokenBucketLimiter::cleanup: stale_threshold = 5 * 60 seconds.
TbStaleSecs == 300

\* The eviction age in ticks.
TbStaleTicks == TbStaleSecs * TicksPerSec

\* The clock takes MaxTicks single ticks in all, and one idle period as long
\* as the token-bucket eviction age.
TicksTaken == clock % TbStaleTicks
IdleTaken == clock >= TbStaleTicks

\* Instant::duration_since: zero when the other instant is later.
DurationSince(now, earlier) == IF now >= earlier THEN now - earlier ELSE 0

-----------------------------------------------------------------------------
(* TokenBucketLimiter.  tokens is kept in units of 1/TicksPerSec token, so *)
(* that elapsed seconds times rate is exact: one token is TicksPerSec.     *)

OneToken == TicksPerSec

\* TokenBucketState as or_insert_with builds it: a full bucket.
TbNewState(now) == [tokens |-> tbCfg.burst * OneToken, last_refill |-> now]

TbRefillNoRate(tokens, elapsed) == Min(tokens + elapsed, tbCfg.burst * OneToken)

TbRefillNoCap(tokens, elapsed) == tokens + elapsed * tbCfg.rps

\* (state.tokens + elapsed * state.rate).min(state.burst)
TbRefill(tokens, elapsed) == Min(tokens + elapsed * tbCfg.rps, tbCfg.burst * OneToken)

TbHasTokenStrict(tokens) == tokens > OneToken

\* state.tokens >= 1.0
TbHasToken(tokens) == tokens >= OneToken

\* History per key.
\*   run:  the checks of the key's current bucket so far, while every one of
\*         them read the clock value the creating call read: [n, adm], or
\*         n = -1 once a call read another value.
\*   sp:   "ok" while every check of the key so far started at least 1/rps
\*         seconds after the previous one returned and was admitted,
\*         "denied" once one of those was denied, "broken" once a check
\*         started earlier than that.
\*   last: while sp is "ok", the clock when the key's latest check returned
\*         (-1: none yet).
\*   res:  the result of the key's latest check.
\*   at:   the instant the key's latest check read as now (-1: none yet).
\*   gone: cleanup has removed the key and no check of it has returned since.
\*   log:  the latest TbLogMax admissions of the key, each by the clock
\*         when the check admitted it.
\*   twin: the key's bucket as the same checks leave it in a limiter whose
\*         cleanup never runs (<< >>: no check yet), and twinRes, the
\*         result of the key's latest check there.
TbHist0 == [run |-> [n |-> 0, adm |-> 0], sp |-> "ok", last |-> -1, res |-> "none",
            at |-> -1, gone |-> FALSE, log |-> << >>, twin |-> << >>, twinRes |-> "none"]

\* The last n elements of a sequence
LastN(seq, n) == IF Len(seq) <= n THEN seq ELSE SubSeq(seq, Len(seq) - n + 1, Len(seq))

TbIdle == [pc |-> "idle", key |-> "k1", now |-> 0]

\* TokenBucketLimiter::new(rps, burst), for rps and burst in cfgs
TbNew(cfgs) ==
  /\ tbCfg \in cfgs
  /\ buckets = << >>
  /\ tbThr = [t \in Threads |-> TbIdle]
  /\ tbCl = [pc |-> "idle", now |-> 0]
  /\ tbHist = [k \in Keys |-> TbHist0]

\* A check of key k starts now: is it at least 1/rps seconds after the
\* previous check of k returned, with no other check of k in flight?
TbSpacedStart(k) ==
  /\ \A u \in Threads : ~ (tbThr[u].pc = "locked" /\ tbThr[u].key = k)
  /\ tbHist[k].last >= 0 => (clock - tbHist[k].last) * tbCfg.rps >= TicksPerSec

\* check(key), first statement: let now = Instant::now().
TbCheckNow(t, k) ==
  /\ tbThr[t].pc = "idle"
  /\ tbThr' = [tbThr EXCEPT ![t] = [pc |-> "locked", key |-> k, now |-> clock]]
  /\ tbHist' = [tbHist EXCEPT ![k] =
                  IF @.sp = "ok" /\ ~ TbSpacedStart(k)
                    THEN [@ EXCEPT !.sp = "broken", !.last = -1] ELSE @]
  /\ UNCHANGED <<tbCfg, buckets, tbCl, clock>> /\ TbFrame

\* check(key), the rest, under the map's lock on the key's entry:
\* entry().or_insert_with, refill, last_refill = now, consume.
TbCheckEntry(t) ==
  /\ tbThr[t].pc = "locked"
  /\ LET k       == tbThr[t].key
         now     == tbThr[t].now
         fresh   == k \notin DOMAIN buckets
         state   == IF fresh THEN TbNewState(now) ELSE buckets[k]
         elapsed == DurationSince(now, state.last_refill)
         filled  == TbRefill(state.tokens, elapsed)
         ok      == TbHasToken(filled)
         after   == [tokens |-> IF ok THEN filled - OneToken ELSE filled,
                     last_refill |-> now]
         h       == tbHist[k]
         run0    == IF fresh THEN [n |-> 0, adm |-> 0] ELSE h.run
         same    == fresh \/ (run0.n >= 0 /\ now = state.last_refill)
         run1    == IF ~ same \/ run0.n < 0 THEN [n |-> -1, adm |-> 0]
                    ELSE IF run0.n > tbCfg.burst THEN run0
                    ELSE [n |-> run0.n + 1, adm |-> run0.adm + (IF ok THEN 1 ELSE 0)]
         sp1     == IF h.sp = "ok" /\ ~ ok THEN "denied" ELSE h.sp
         tstate  == IF h.twin = << >> THEN TbNewState(now) ELSE h.twin[1]
         tfilled == TbRefill(tstate.tokens, DurationSince(now, tstate.last_refill))
         tok     == TbHasToken(tfilled)
     IN  /\ buckets' = [x \in DOMAIN buckets \cup {k} |-> IF x = k THEN after ELSE buckets[x]]
         /\ tbThr' = [tbThr EXCEPT ![t] = TbIdle]
         /\ tbHist' = [tbHist EXCEPT ![k] =
                         [run  |-> run1,
                          sp   |-> sp1,
                          last |-> IF sp1 = "ok" THEN clock ELSE -1,
                          res  |-> IF ok THEN "allow" ELSE "deny",
                          at   |-> now,
                          gone |-> FALSE,
                          log  |-> IF ok THEN LastN(Append(h.log, clock), TbLogMax)
                                   ELSE h.log,
                          twin |-> <<[tokens |-> IF tok THEN tfilled - OneToken ELSE tfilled,
                                      last_refill |-> now]>>,
                          twinRes |-> IF tok THEN "allow" ELSE "deny"]]
  /\ UNCHANGED <<tbCfg, tbCl, clock>> /\ TbFrame

\* cleanup(), first statement: let now = Instant::now().
TbCleanupNow ==
  /\ tbCl.pc = "idle"
  /\ tbCl' = [tbCl EXCEPT !.pc = "retain", !.now = clock]
  /\ UNCHANGED <<tbCfg, buckets, tbThr, tbHist, clock>> /\ TbFrame

\* The closure of retain with the threshold included
TbRetainedInclusive(now, state) == DurationSince(now, state.last_refill) <= TbStaleTicks

\* The closure of retain: now.duration_since(state.last_refill) < stale_threshold
TbRetained(now, state) == DurationSince(now, state.last_refill) < TbStaleTicks

\* cleanup(): buckets.retain(..)
TbCleanupRetain ==
  /\ tbCl.pc = "retain"
  /\ buckets' = [k \in { x \in DOMAIN buckets : TbRetained(tbCl.now, buckets[x]) } |->
                   buckets[k]]
  /\ tbHist' = [k \in DOMAIN tbHist |->
                  IF k \in DOMAIN buckets /\ ~ TbRetained(tbCl.now, buckets[k])
                    THEN [tbHist[k] EXCEPT !.gone = TRUE] ELSE tbHist[k]]
  /\ tbCl' = [pc |-> "idle", now |-> 0]
  /\ UNCHANGED <<tbCfg, tbThr, clock>> /\ TbFrame

\* Time passes by one tick, whatever is in flight.
TbTick ==
  /\ TicksTaken < MaxTicks
  /\ clock' = clock + 1
  /\ UNCHANGED tbVars /\ TbFrame

\* An idle period as long as the eviction age: no call is in flight.
TbIdlePeriod ==
  /\ \A t \in Threads : tbThr[t].pc = "idle"
  /\ tbCl.pc = "idle"
  /\ ~ IdleTaken
  /\ clock' = clock + TbStaleTicks
  /\ UNCHANGED tbVars /\ TbFrame

TbNext ==
  \/ \E t \in Threads, k \in Keys : TbCheckNow(t, k)
  \/ \E t \in Threads : TbCheckEntry(t)
  \/ TbCleanupNow
  \/ TbCleanupRetain
  \/ TbTick
  \/ TbIdlePeriod

-----------------------------------------------------------------------------
(* SlidingWindowLimiter                                                    *)

\* The threads that call the sliding-window limiter.
SwThreads == {"t1"}

\* SlidingWindowLimiter::new: limit = rps * window_secs
SwLimit == swCfg.rps * swCfg.window_secs

\* Duration::from_secs(self.window_secs), in ticks.
SwWindow == swCfg.window_secs * TicksPerSec

\* SlidingWindowState as or_insert_with builds it.
SwNewState(now) == [current_count |-> 0, previous_count |-> 0, window_start |-> now]

\* A rotation by one window at most
SwRotateOnce(state, now) ==
  IF DurationSince(now, state.window_start) >= SwWindow
    THEN [current_count  |-> 0,
          previous_count |-> state.current_count,
          window_start   |-> state.window_start + SwWindow]
    ELSE state

\* The rotation loop of check: while now - window_start >= window_duration.
RECURSIVE SwRotate(_, _)
SwRotate(state, now) ==
  IF DurationSince(now, state.window_start) >= SwWindow
    THEN SwRotate([current_count  |-> 0,
                   previous_count |-> state.current_count,
                   window_start   |-> state.window_start + SwWindow], now)
    ELSE state

SwUnderLimitInclusive(state, now) ==
  LET e == Min(DurationSince(now, state.window_start), SwWindow)
  IN  state.previous_count * (SwWindow - e) + state.current_count * SwWindow
         <= SwLimit * SwWindow

\* weighted_count < limit, where weighted_count =
\* previous_count * (1 - elapsed_fraction) + current_count and
\* elapsed_fraction = min(elapsed_in_window / window_secs, 1); both sides
\* are multiplied by the window length in ticks to stay in the integers.
SwUnderLimit(state, now) ==
  LET e == Min(DurationSince(now, state.window_start), SwWindow)
  IN  state.previous_count * (SwWindow - e) + state.current_count * SwWindow
         < SwLimit * SwWindow

\* History per key.
\*   log: the admitted checks that began and returned during the last
\*        window_secs seconds (clock - window < t <= clock), each by the
\*        clock value its call began at.
\*   adm: the number of checks admitted since the key's window last rotated
\*        (or was created).
\*   res: the result of the key's latest check.
\*   at:  the instant the key's latest check read as now (-1: none yet).
SwHist0 == [log |-> << >>, adm |-> 0, res |-> "none", at |-> -1]

SwIdle == [pc |-> "idle", key |-> "k1", now |-> 0]

\* SlidingWindowLimiter::new(rps, window_secs), for rps and window_secs in cfgs
SwNew(cfgs) ==
  /\ swCfg \in cfgs
  /\ windows = << >>
  /\ swThr = [t \in SwThreads |-> SwIdle]
  /\ swCl = [pc |-> "idle", now |-> 0]
  /\ swHist = [k \in Keys |-> SwHist0]

\* check(key), first statement: let now = Instant::now().
SwCheckNow(t, k) ==
  /\ swThr[t].pc = "idle"
  /\ swThr' = [swThr EXCEPT ![t] = [pc |-> "locked", key |-> k, now |-> clock]]
  /\ UNCHANGED <<swCfg, windows, swCl, swHist, clock>> /\ SwFrame

\* check(key), the rest, under the map's lock on the key's entry:
\* entry().or_insert_with, rotate, weigh, count.
SwCheckEntry(t) ==
  /\ swThr[t].pc = "locked"
  /\ LET k       == swThr[t].key
         now     == swThr[t].now
         fresh   == k \notin DOMAIN windows
         state   == IF fresh THEN SwNewState(now) ELSE windows[k]
         rotated == SwRotate(state, now)
         ok      == SwUnderLimit(rotated, now)
         after   == IF ok THEN [rotated EXCEPT !.current_count = @ + 1] ELSE rotated
         h       == swHist[k]
         adm0    == IF fresh \/ rotated.window_start # state.window_start THEN 0 ELSE h.adm
     IN  /\ windows' = [x \in DOMAIN windows \cup {k} |-> IF x = k THEN after ELSE windows[x]]
         /\ swHist' = [swHist EXCEPT ![k] =
                         [log |-> IF ok /\ now > clock - SwWindow
                                    THEN Append(h.log, now) ELSE h.log,
                          adm |-> IF ok THEN adm0 + 1 ELSE adm0,
                          res |-> IF ok THEN "allow" ELSE "deny",
                          at  |-> now]]
  /\ swThr' = [swThr EXCEPT ![t] = SwIdle]
  /\ UNCHANGED <<swCfg, swCl, clock>> /\ SwFrame

\* cleanup(), first statement: let now = Instant::now().
SwCleanupNow ==
  /\ swCl.pc = "idle"
  /\ swCl' = [pc |-> "retain", now |-> clock]
  /\ UNCHANGED <<swCfg, windows, swThr, swHist, clock>> /\ SwFrame

\* The closure of retain with the threshold included
SwRetainedInclusive(now, state) == DurationSince(now, state.window_start) <= 2 * SwWindow

\* The closure of retain: now.duration_since(state.window_start) < stale_threshold,
\* stale_threshold being 2 * window_secs
SwRetained(now, state) == DurationSince(now, state.window_start) < 2 * SwWindow

\* cleanup(): windows.retain(..)
SwCleanupRetain ==
  /\ swCl.pc = "retain"
  /\ windows' = [k \in { x \in DOMAIN windows : SwRetained(swCl.now, windows[x]) } |->
                   windows[k]]
  /\ swCl' = [pc |-> "idle", now |-> 0]
  /\ UNCHANGED <<swCfg, swThr, swHist, clock>> /\ SwFrame

\* Time passes by one tick; admissions older than a window leave the log.
SwTick ==
  /\ clock < SwMaxTicks
  /\ clock' = clock + 1
  /\ swHist' = [k \in DOMAIN swHist |->
                  [swHist[k] EXCEPT !.log =
                      SelectSeq(@, LAMBDA x : x > clock + 1 - SwWindow)]]
  /\ UNCHANGED <<swCfg, windows, swThr, swCl>> /\ SwFrame

SwNext ==
  \/ \E t \in SwThreads, k \in Keys : SwCheckNow(t, k)
  \/ \E t \in SwThreads : SwCheckEntry(t)
  \/ SwCleanupNow
  \/ SwCleanupRetain
  \/ SwTick

\* check(key) statement by statement, the iterations of its loop included.
\* The entry stays locked from or_insert_with to the return.

\* self.windows.entry(key.to_string()).or_insert_with(..)
SwLockEntry(t) ==
  /\ swThr[t].pc = "locked"
  /\ LET k == swThr[t].key
     IN  /\ windows' = IF k \in DOMAIN windows THEN windows
                       ELSE [x \in DOMAIN windows \cup {k} |->
                               IF x = k THEN SwNewState(swThr[t].now) ELSE windows[x]]
         /\ swHist' = IF k \in DOMAIN windows THEN swHist
                      ELSE [swHist EXCEPT ![k].adm = 0]
  /\ swThr' = [swThr EXCEPT ![t].pc = "rotating"]
  /\ UNCHANGED <<swCfg, swCl, clock>> /\ SwFrame

\* One iteration of: while now.duration_since(state.window_start) >= window_duration
SwRotateStep(t) ==
  /\ swThr[t].pc = "rotating"
  /\ LET k == swThr[t].key
     IN  /\ DurationSince(swThr[t].now, windows[k].window_start) >= SwWindow
         /\ windows' = [windows EXCEPT ![k] = SwRotateOnce(@, swThr[t].now)]
         /\ swHist' = [swHist EXCEPT ![k].adm = 0]
  /\ UNCHANGED <<swCfg, swThr, swCl, clock>> /\ SwFrame

\* The loop is left: the weighing, the count, the return.
SwRotateDone(t) ==
  /\ swThr[t].pc = "rotating"
  /\ LET k   == swThr[t].key
         now == swThr[t].now
         ok  == SwUnderLimit(windows[k], now)
     IN  /\ DurationSince(now, windows[k].window_start) < SwWindow
         /\ windows' = [windows EXCEPT ![k].current_count = IF ok THEN @ + 1 ELSE @]
         /\ swHist' = [swHist EXCEPT ![k] =
                         [log |-> IF ok /\ now > clock - SwWindow
                                    THEN Append(@.log, now) ELSE @.log,
                          adm |-> IF ok THEN @.adm + 1 ELSE @.adm,
                          res |-> IF ok THEN "allow" ELSE "deny",
                          at  |-> now]]
  /\ swThr' = [swThr EXCEPT ![t] = SwIdle]
  /\ UNCHANGED <<swCfg, swCl, clock>> /\ SwFrame

SwLoopNext ==
  \/ \E t \in SwThreads, k \in Keys : SwCheckNow(t, k)
  \/ \E t \in SwThreads : SwLockEntry(t)
  \/ \E t \in SwThreads : SwRotateStep(t)
  \/ \E t \in SwThreads : SwRotateDone(t)
  \/ SwTick

\* The same limiter called from two threads
SwRaceNew(cfgs) ==
  /\ swCfg \in cfgs
  /\ windows = << >>
  /\ swThr = [t \in Threads |-> SwIdle]
  /\ swCl = [pc |-> "idle", now |-> 0]
  /\ swHist = [k \in Keys |-> SwHist0]

SwRaceNext ==
  \/ \E t \in Threads, k \in Keys : SwCheckNow(t, k)
  \/ \E t \in Threads : SwCheckEntry(t)
  \/ SwCleanupNow
  \/ SwCleanupRetain
  \/ SwTick

-----------------------------------------------------------------------------
(* RateLimiter: the facade over the two limiters, and its clones          *)

\* The keys and the RateLimiter values of the runs
LmKeys == {"client-a", "client-b"}
LmHandles == {"limiter", "limiter2"}
LmKinds == {"TokenBucket", "SlidingWindow"}

LmFrame ==
  UNCHANGED <<trieVars, repVars, tbVars, swVars, ckVars, botVars, scVars, plVars,
              rwVars, usVars, ldVars, rtVars>>

\* TokenBucketLimiter::check on the map of an allocation:
\* entry().or_insert_with, refill, last_refill = now, consume.
token_bucket_check(map, key, now) ==
  LET state  == IF key \in DOMAIN map THEN map[key] ELSE TbNewState(now)
      filled == TbRefill(state.tokens, DurationSince(now, state.last_refill))
      ok     == TbHasToken(filled)
      after  == [tokens |-> IF ok THEN filled - OneToken ELSE filled, last_refill |-> now]
  IN  [ok |-> ok,
       map |-> [x \in DOMAIN map \cup {key} |-> IF x = key THEN after ELSE map[x]]]

\* SlidingWindowLimiter::check on the map of an allocation:
\* entry().or_insert_with, rotate, weigh, count.
sliding_window_check(map, key, now) ==
  LET state   == IF key \in DOMAIN map THEN map[key] ELSE SwNewState(now)
      rotated == SwRotate(state, now)
      ok      == SwUnderLimit(rotated, now)
      after   == IF ok THEN [rotated EXCEPT !.current_count = @ + 1] ELSE rotated
  IN  [ok |-> ok,
       map |-> [x \in DOMAIN map \cup {key} |-> IF x = key THEN after ELSE map[x]]]

\* RateLimiter::check: match self.inner.as_ref(), delegate
LimiterCheck(inner, key, now) ==
  IF inner.kind = "TokenBucket"
    THEN token_bucket_check(inner.map, key, now)
    ELSE sliding_window_check(inner.map, key, now)

\* A clone that copies the limiter into an allocation of its own
CloneDeep(arcs, ptr) == [arcs |-> Append(arcs, arcs[ptr]), ptr |-> Len(arcs) + 1]

\* #[derive(Clone)] on RateLimiter { inner: Arc<RateLimiterInner> }:
\* Arc::clone, the same allocation.
RateLimiterClone(arcs, ptr) == [arcs |-> arcs, ptr |-> ptr]

LmNoCall == [pc |-> "idle", key |-> "", now |-> 0]
LmNoCheck == [handle |-> "", key |-> "", ok |-> FALSE, entries |-> << >>, by |-> {}]

\* RateLimiter::new_token_bucket / new_sliding_window: one allocation,
\* one RateLimiter value
LmNew(kinds) ==
  /\ \E kind \in kinds : lmArc = <<[kind |-> kind, map |-> << >>]>>
  /\ lmRef = [h \in LmHandles |-> IF h = "limiter" THEN 1 ELSE 0]
  /\ lmCall = [h \in LmHandles |-> LmNoCall]
  /\ lmOut = LmNoCheck

LmAside == LmNew({"TokenBucket"})

\* let limiter2 = limiter.clone()
LmClone(h, h2) ==
  /\ lmRef[h] # 0 /\ lmRef[h2] = 0
  /\ LET c == RateLimiterClone(lmArc, lmRef[h])
     IN  lmArc' = c.arcs /\ lmRef' = [lmRef EXCEPT ![h2] = c.ptr]
  /\ UNCHANGED <<lmCall, lmOut, clock>> /\ LmFrame

\* check(key) through the value h, first statement: let now = Instant::now()
LmCheckNow(h, key) ==
  /\ lmRef[h] # 0 /\ lmCall[h].pc = "idle"
  /\ lmCall' = [lmCall EXCEPT ![h] = [pc |-> "locked", key |-> key, now |-> clock]]
  /\ UNCHANGED <<lmArc, lmRef, lmOut, clock>> /\ LmFrame

\* check(key) through the value h, the rest, under the lock of the entry
LmCheckEntry(h) ==
  /\ lmCall[h].pc = "locked"
  /\ LET key == lmCall[h].key
         r   == LimiterCheck(lmArc[lmRef[h]], key, lmCall[h].now)
     IN  /\ lmArc' = [lmArc EXCEPT ![lmRef[h]].map = r.map]
         /\ lmOut' = [handle  |-> h,
                      key     |-> key,
                      ok      |-> r.ok,
                      entries |-> [x \in DOMAIN lmOut.entries \cup {key} |->
                                     IF x = key THEN r.map[key] ELSE lmOut.entries[x]],
                      by      |-> lmOut.by \cup {h}]
  /\ lmCall' = [lmCall EXCEPT ![h] = LmNoCall]
  /\ UNCHANGED <<lmRef, clock>> /\ LmFrame

\* Time passes by one tick, whatever is in flight.
LmTick ==
  /\ clock < LmMaxTicks
  /\ clock' = clock + 1
  /\ UNCHANGED lmVars /\ LmFrame

LmNext ==
  \/ \E h \in LmHandles, h2 \in LmHandles : LmClone(h, h2)
  \/ \E h \in LmHandles, key \in LmKeys : LmCheckNow(h, key)
  \/ \E h \in LmHandles : LmCheckEntry(h)
  \/ LmTick

-----------------------------------------------------------------------------
(* Strings: printable ASCII (the backquote left out), by their bytes       *)

AsciiLo == " !\"#$%&'(" \o ")*+,-./0123456789:;<=>?@ABCDEFGHIJKLMNOPQRSTUVWXYZ[\\]^_"
AsciiHi == "abcdefghijklmnopqrstuvwxyz{|}~"

CharAt(s, i) == SubSeq(s, i, i)

StrTail(s) == SubSeq(s, 2, Len(s))

\* str::find(char): the first position of c in s, 0 when there is none
StrFind(s, c) ==
  LET at == { i \in 1 .. Len(s) : CharAt(s, i) = c }
  IN  IF at = {} THEN 0 ELSE CHOOSE i \in at : \A j \in at : i <= j

\* The byte of every character: 0x20 .. 0x5f and 0x61 .. 0x7e.
ByteTable ==
  [c \in { CharAt(AsciiLo, i) : i \in 1 .. Len(AsciiLo) }
          \cup { CharAt(AsciiHi, i) : i \in 1 .. Len(AsciiHi) } |->
     IF StrFind(AsciiLo, c) > 0 THEN 31 + StrFind(AsciiLo, c) ELSE 96 + StrFind(AsciiHi, c)]

\* c as u8
Byte(c) == ByteTable[c]

\* b as char
Char(b) == IF b <= 95 THEN CharAt(AsciiLo, b - 31) ELSE CharAt(AsciiHi, b - 96)

\* char::to_lowercase of every character
LowerTable ==
  [c \in DOMAIN ByteTable |->
     IF ByteTable[c] >= 65 /\ ByteTable[c] <= 90 THEN Char(ByteTable[c] + 32) ELSE c]

\* str::to_lowercase: every character mapped, half by half
RECURSIVE to_lowercase(_)
to_lowercase(s) ==
  IF s = "" THEN ""
  ELSE IF Len(s) = 1 THEN LowerTable[s]
  ELSE to_lowercase(SubSeq(s, 1, Len(s) \div 2))
         \o to_lowercase(SubSeq(s, (Len(s) \div 2) + 1, Len(s)))

\* str::eq_ignore_ascii_case
eq_ignore_ascii_case(a, b) == to_lowercase(a) = to_lowercase(b)

\* str::contains(&str)
str_contains(s, p) ==
  \E i \in 1 .. Len(s) - Len(p) + 1 : SubSeq(s, i, i + Len(p) - 1) = p

\* str::starts_with
starts_with(s, p) == Len(s) >= Len(p) /\ SubSeq(s, 1, Len(p)) = p

\* str::split(char), collected
RECURSIVE split(_, _)
split(s, sep) ==
  LET i == StrFind(s, sep)
  IN  IF i = 0 THEN <<s>>
      ELSE <<SubSeq(s, 1, i - 1)>> \o split(SubSeq(s, i + 1, Len(s)), sep)

\* str::splitn(n, char), collected: at most n parts, the last one the rest
RECURSIVE splitn(_, _, _)
splitn(n, s, sep) ==
  LET i == StrFind(s, sep)
  IN  IF n = 0 THEN << >>
      ELSE IF n = 1 \/ i = 0 THEN <<s>>
      ELSE <<SubSeq(s, 1, i - 1)>> \o splitn(n - 1, SubSeq(s, i + 1, Len(s)), sep)

\* str::trim, for the ASCII space
RECURSIVE trim(_)
trim(s) ==
  IF s = "" THEN ""
  ELSE IF CharAt(s, 1) = " " THEN trim(StrTail(s))
  ELSE IF CharAt(s, Len(s)) = " " THEN trim(SubSeq(s, 1, Len(s) - 1))
  ELSE s

IsDigit(c) == c # "" /\ StrFind("0123456789", c) > 0

RECURSIVE DigitsValue(_, _)
DigitsValue(s, acc) ==
  IF s = "" THEN acc
  ELSE IF ~ IsDigit(CharAt(s, 1)) THEN -1
  ELSE DigitsValue(StrTail(s), acc * 10 + (Byte(CharAt(s, 1)) - 48))

\* str::parse::<u64>(): an optional '+', then one or more decimal digits;
\* -1 stands for Err. (No number here comes near 2^64.)
parse_u64(s) ==
  LET digits == IF starts_with(s, "+") THEN StrTail(s) ELSE s
  IN  IF digits = "" THEN -1 ELSE DigitsValue(digits, 0)

\* format!("{}", n) for an unsigned n
RECURSIVE to_string(_)
to_string(n) ==
  IF n < 10 THEN Char(48 + n) ELSE to_string(n \div 10) \o Char(48 + (n % 10))

HexDigits == "0123456789abcdef"

\* The two hex digits of every character's byte
HexTable ==
  [c \in DOMAIN ByteTable |->
     CharAt(HexDigits, (ByteTable[c] \div 16) + 1)
       \o CharAt(HexDigits, (ByteTable[c] % 16) + 1)]

\* hex::encode: every byte mapped, half by half
RECURSIVE hex_encode(_)
hex_encode(s) ==
  IF s = "" THEN ""
  ELSE IF Len(s) = 1 THEN HexTable[s]
  ELSE hex_encode(SubSeq(s, 1, Len(s) \div 2))
         \o hex_encode(SubSeq(s, (Len(s) \div 2) + 1, Len(s)))

\* u64::saturating_sub
saturating_sub(a, b) == IF a >= b THEN a - b ELSE 0

\* sha256_hex: SHA-256 of the data in hex. The digest is not computed; it is
\* a hex string that differs for different data and from every HMAC.
sha256_hex(data) == hex_encode("S" \o data)

\* compute_hmac: HMAC-SHA256 of the data under the secret, in hex. Not
\* computed either: a hex string that differs for different (secret, data).
compute_hmac(secret, data) == hex_encode("H" \o secret \o "/" \o data)

-----------------------------------------------------------------------------
(* Challenge cookies: js_challenge.rs and captcha.rs                       *)

ClientIps == {"10.0.0.7", "::1"}

\* The nonce the page's proof-of-work search ends at.
PowNonces == {"41"}

\* The terms of the CAPTCHA sum (gen_range(2..50)), and the answers typed
\* other than the right one.
CaptchaTerms == {2, 49}
WrongAnswers == {"5"}

Secrets == {"alpha", "beta"}

\* TTL and MAC secret of the cookies: JsChallengeConfig / CaptchaConfig
CookieConfigs == [secret : Secrets, ttl_secs : 0 .. MaxTtl]

NoPage == [kind |-> "none", challenge |-> "", hmac |-> "", ip |-> "", ts |-> "",
           token |-> "", answer |-> ""]

\* generate_challenge: the values the page's script is given
\* (challenge, hmac, ip, ts), now being SystemTime::now() in seconds.
generate_challenge(client_ip, secret, now) ==
  LET timestamp      == to_string(now)
      challenge_data == client_ip \o ":" \o timestamp
  IN  [kind      |-> "bc",
       challenge |-> challenge_data,
       hmac      |-> compute_hmac(secret, challenge_data \o ":verified"),
       ip        |-> client_ip,
       ts        |-> timestamp,
       token     |-> "",
       answer    |-> ""]

\* The page's script once it found a nonce:
\* hash = sha256(challenge + ':' + nonce); cookieValue = ip:ts:hash:hmac
ChallengeCookieValue(page, nonce) ==
  page.ip \o ":" \o page.ts \o ":"
    \o sha256_hex(page.challenge \o ":" \o nonce) \o ":" \o page.hmac

\* verify_challenge_cookie, now being SystemTime::now() in seconds
verify_challenge_cookie(cookie_value, client_ip, secret, ttl_secs, now) ==
  LET parts == splitn(4, cookie_value, ":")
  IN  IF Len(parts) # 4 THEN FALSE
      ELSE LET cookie_ip   == parts[1]
               cookie_ts   == parts[2]
               cookie_hmac == parts[4]
               ts          == parse_u64(cookie_ts)
           IN  IF cookie_ip # client_ip THEN FALSE
               ELSE IF ts < 0 THEN FALSE
               ELSE IF saturating_sub(now, ts) > ttl_secs THEN FALSE
               ELSE cookie_hmac =
                      compute_hmac(secret, cookie_ip \o ":" \o cookie_ts \o ":verified")

\* generate_captcha_page for the terms a and b: the hidden challenge token,
\* and the sum the picture asks for.
generate_captcha_page(client_ip, secret, a, b, now) ==
  LET answer      == a + b
      timestamp   == to_string(now)
      answer_hash == sha256_hex(to_string(answer))
      mac_input   == client_ip \o ":" \o timestamp \o ":" \o answer_hash
      hmac_hex    == compute_hmac(secret, mac_input)
  IN  [kind      |-> "captcha",
       challenge |-> "",
       hmac      |-> hmac_hex,
       ip        |-> client_ip,
       ts        |-> timestamp,
       token     |-> client_ip \o ":" \o timestamp \o ":" \o answer_hash \o ":" \o hmac_hex,
       answer    |-> to_string(answer)]

\* The form's submit handler: cookie value = token + ':' + answer
CaptchaCookieValue(page, answer) == page.token \o ":" \o answer

\* verify_captcha_cookie without its last step, the answer's hash
VerifyCaptchaNoAnswerCheck(cookie_value, client_ip, secret, ttl_secs, now) ==
  LET parts == split(cookie_value, ":")
  IN  /\ Len(parts) = 5
      /\ parts[1] = client_ip
      /\ parse_u64(parts[2]) >= 0
      /\ saturating_sub(now, parse_u64(parts[2])) <= ttl_secs
      /\ parts[4] = compute_hmac(secret, parts[1] \o ":" \o parts[2] \o ":" \o parts[3])

\* verify_captcha_cookie, now being SystemTime::now() in seconds
verify_captcha_cookie(cookie_value, client_ip, secret, ttl_secs, now) ==
  LET parts == split(cookie_value, ":")
  IN  IF Len(parts) # 5 THEN FALSE
      ELSE LET ip          == parts[1]
               ts_str      == parts[2]
               answer_hash == parts[3]
               hmac_hex    == parts[4]
               user_answer == parts[5]
               ts          == parse_u64(ts_str)
           IN  IF ip # client_ip THEN FALSE
               ELSE IF ts < 0 THEN FALSE
               ELSE IF saturating_sub(now, ts) > ttl_secs THEN FALSE
               ELSE IF hmac_hex #
                         compute_hmac(secret, ip \o ":" \o ts_str \o ":" \o answer_hash)
                      THEN FALSE
               ELSE answer_hash = sha256_hex(user_answer)

\* The cookie the browser holds, which it drops when it is sent a new page:
\* its value, and for the properties the page
\* it was assembled from (ip, issue time) and whether the answer given was
\* the right one.
NoCookie == [kind |-> "none", value |-> "", ip |-> "", ts |-> 0, right |-> FALSE,
             tamper |-> "none"]

\* The last verification of the cookie held.
NoVerdict == [pc |-> "none", kind |-> "none", ip |-> "", ok |-> FALSE,
              sameIp |-> FALSE, fresh |-> FALSE, right |-> FALSE,
              tamper |-> "none", fields |-> 0]

\* The names of a cookie's fields, in the order of the value.
FieldNames(kind) ==
  IF kind = "bc" THEN <<"ip", "ts", "hash", "hmac">>
  ELSE <<"ip", "ts", "answer_hash", "hmac", "user_answer">>

ReplaceChar(s, i, c) == SubSeq(s, 1, i - 1) \o c \o SubSeq(s, i + 1, Len(s))

\* Where field j of the colon-separated parts starts in the value.
RECURSIVE FieldStart(_, _)
FieldStart(parts, j) ==
  IF j = 1 THEN 1 ELSE FieldStart(parts, j - 1) + Len(parts[j - 1]) + 1

\* The characters a client changes and what it changes them to: the first
\* and the last character of every field, and every separator.
TamperChars == {"0", "1", ":"}

TamperSpots(kind, value) ==
  LET parts == split(value, ":")
      names == FieldNames(kind)
  IN  IF kind = "none" \/ Len(parts) # Len(names) THEN {}
      ELSE { [field |-> names[j], pos |-> FieldStart(parts, j)] :
               j \in { k \in 1 .. Len(parts) : Len(parts[k]) > 0 } }
           \cup { [field |-> names[j],
                   pos |-> FieldStart(parts, j) + Len(parts[j]) - 1] :
                    j \in { k \in 1 .. Len(parts) : Len(parts[k]) > 0 } }
           \cup { [field |-> "sep", pos |-> FieldStart(parts, j) - 1] :
                    j \in 2 .. Len(parts) }

CkNew(cfgs) ==
  /\ ckCfg \in cfgs
  /\ unixNow = UnixStart
  /\ ckPage = NoPage
  /\ ckCookie = NoCookie
  /\ ckVerdict = NoVerdict

\* A request from ip is answered with the proof-of-work challenge page.
CkGenerateChallenge(ip) ==
  /\ ckPage' = generate_challenge(ip, ckCfg.secret, unixNow)
  /\ ckCookie' = NoCookie
  /\ ckVerdict' = NoVerdict
  /\ UNCHANGED <<ckCfg, unixNow>> /\ CkFrame

\* The page's script finds a nonce, sets the cookie and reloads.
CkSolveChallenge(nonce) ==
  /\ ckPage.kind = "bc"
  /\ ckCookie' = [kind |-> "bc", value |-> ChallengeCookieValue(ckPage, nonce),
                  ip |-> ckPage.ip, ts |-> parse_u64(ckPage.ts), right |-> TRUE,
                  tamper |-> "none"]
  /\ ckPage' = NoPage
  /\ ckVerdict' = NoVerdict
  /\ UNCHANGED <<ckCfg, unixNow>> /\ CkFrame

\* A request from ip is answered with the CAPTCHA page for a + b.
CkGenerateCaptcha(ip, a, b) ==
  /\ ckPage' = generate_captcha_page(ip, ckCfg.secret, a, b, unixNow)
  /\ ckCookie' = NoCookie
  /\ ckVerdict' = NoVerdict
  /\ UNCHANGED <<ckCfg, unixNow>> /\ CkFrame

\* The visitor submits an answer; the page sets the cookie and leaves.
CkSubmitAnswer(answer) ==
  /\ ckPage.kind = "captcha"
  /\ ckCookie' = [kind |-> "captcha", value |-> CaptchaCookieValue(ckPage, answer),
                  ip |-> ckPage.ip, ts |-> parse_u64(ckPage.ts),
                  right |-> (answer = ckPage.answer), tamper |-> "none"]
  /\ ckPage' = NoPage
  /\ ckVerdict' = NoVerdict
  /\ UNCHANGED <<ckCfg, unixNow>> /\ CkFrame

\* A request from ip carries the cookie; the matching verify function runs.
CkVerify(ip) ==
  /\ ckCookie.kind # "none"
  /\ ckVerdict' =
       [pc     |-> "done",
        kind   |-> ckCookie.kind,
        ip     |-> ip,
        ok     |-> IF ckCookie.kind = "bc"
                     THEN verify_challenge_cookie(ckCookie.value, ip, ckCfg.secret,
                                                  ckCfg.ttl_secs, unixNow)
                     ELSE verify_captcha_cookie(ckCookie.value, ip, ckCfg.secret,
                                                ckCfg.ttl_secs, unixNow),
        sameIp |-> (ip = ckCookie.ip),
        fresh  |-> (unixNow - ckCookie.ts <= ckCfg.ttl_secs),
        right  |-> ckCookie.right,
        tamper |-> ckCookie.tamper,
        fields |-> Len(split(ckCookie.value, ":"))]
  /\ UNCHANGED <<ckCfg, unixNow, ckPage, ckCookie>> /\ CkFrame

\* The client changes one character of a cookie that verified: the character
\* at a spot of the value becomes c.
CkTamper(spot, c) ==
  /\ ckVerdict.pc = "done" /\ ckVerdict.ok
  /\ ckCookie.tamper = "none"
  /\ c # CharAt(ckCookie.value, spot.pos)
  /\ ckCookie' = [ckCookie EXCEPT !.value = ReplaceChar(@, spot.pos, c),
                                  !.tamper = spot.field]
  /\ ckVerdict' = NoVerdict
  /\ UNCHANGED <<ckCfg, unixNow, ckPage>> /\ CkFrame

\* A second passes on the wall clock.
CkSecond ==
  /\ unixNow < UnixStart + MaxSecs
  /\ unixNow' = unixNow + 1
  /\ UNCHANGED <<ckCfg, ckPage, ckCookie, ckVerdict>> /\ CkFrame

CkNext ==
  \/ \E ip \in ClientIps : CkGenerateChallenge(ip)
  \/ \E nonce \in PowNonces : CkSolveChallenge(nonce)
  \/ \E ip \in ClientIps, a \in CaptchaTerms, b \in CaptchaTerms : CkGenerateCaptcha(ip, a, b)
  \/ \E answer \in {ckPage.answer} \cup WrongAnswers : CkSubmitAnswer(answer)
  \/ \E ip \in ClientIps : CkVerify(ip)
  \/ \E spot \in TamperSpots(ckCookie.kind, ckCookie.value), c \in TamperChars :
       CkTamper(spot, c)
  \/ CkSecond

-----------------------------------------------------------------------------
-----------------------------------------------------------------------------
(* BotDetector                                                             *)

KNOWN_GOOD_BOTS ==
  <<"googlebot", "bingbot", "yandexbot", "duckduckbot", "baiduspider", "slurp",
    "facebookexternalhit", "twitterbot", "linkedinbot", "applebot">>

KNOWN_BAD_BOTS ==
  <<"curl", "wget", "python-requests", "python-urllib", "scrapy", "httpclient",
    "go-http-client", "java/", "libwww-perl", "mechanize", "phantom",
    "headlesschrome", "selenium">>

SUSPICIOUS_PATTERNS == <<"bot", "crawler", "spider", "scraper", "fetch", "scan">>

\* ua_lower.contains(pattern) for some pattern of the list
ContainsAny(ua_lower, patterns) ==
  \E i \in 1 .. Len(patterns) : str_contains(ua_lower, patterns[i])

\* classify_user_agent
classify_user_agent(ua, custom_allowlist) ==
  LET ua_lower == to_lowercase(ua)
      looks_like_browser ==
        /\ str_contains(ua_lower, "mozilla")
        /\ \/ str_contains(ua_lower, "chrome")
           \/ str_contains(ua_lower, "firefox")
           \/ str_contains(ua_lower, "safari")
           \/ str_contains(ua_lower, "edge")
  IN  IF ua = "" THEN "Suspicious"
      ELSE IF \E i \in 1 .. Len(custom_allowlist) : str_contains(ua_lower, to_lowercase(custom_allowlist[i]))
        THEN "KnownGoodBot"
      ELSE IF ContainsAny(ua_lower, KNOWN_GOOD_BOTS) THEN "KnownGoodBot"
      ELSE IF ContainsAny(ua_lower, KNOWN_BAD_BOTS) THEN "KnownBadBot"
      ELSE IF ~ looks_like_browser /\ ContainsAny(ua_lower, SUSPICIOUS_PATTERNS)
        THEN "Suspicious"
      ELSE "LikelyHuman"

\* headers.iter().find(|(k, _)| k.eq_ignore_ascii_case(name)).map(value).unwrap_or("")
HeaderValue(headers, name) ==
  LET at == { i \in 1 .. Len(headers) : eq_ignore_ascii_case(headers[i].k, name) }
  IN  IF at = {} THEN "" ELSE headers[CHOOSE i \in at : \A j \in at : i <= j].v

\* fingerprint::has_standard_accept
has_standard_accept(headers) ==
  \E i \in 1 .. Len(headers) :
    /\ eq_ignore_ascii_case(headers[i].k, "accept")
    /\ headers[i].v # ""
    /\ headers[i].v # "*/*"

\* header_names.join(",") of compute_fingerprint
RECURSIVE JoinLowerNames(_)
JoinLowerNames(headers) ==
  IF headers = << >> THEN ""
  ELSE to_lowercase(headers[1].k)
         \o (IF Len(headers) > 1 THEN "," ELSE "") \o JoinLowerNames(Tail(headers))

\* compute_fingerprint(..).header_order_hash, the part of the fingerprint
\* that check keeps
header_order_hash(headers) == sha256_hex(JoinLowerNames(headers))

\* Scores are f64 in the code; here they are counted in thousandths, and a
\* sum that f64 rounds off the decimal value is off by one thousandth the
\* same way (0.1 + 0.2 is greater than 0.3, 0.9 - 0.8 is less than 0.1,
\* 1.1 - 0.8 is greater than 0.3).
ScorePlusAccept(score) == IF score = 100 THEN 301 ELSE score + 200

ScoreMinusChallenge(score) ==
  IF score = 900 THEN 99 ELSE IF score = 1100 THEN 301 ELSE score - 800

\* f64::clamp(0.0, 1.0)
Clamp01(score) == IF score < 0 THEN 0 ELSE IF score > 1000 THEN 1000 ELSE score

\* compute_bot_score
compute_bot_score(bot_pattern, has_valid_challenge, headers) ==
  LET base == CASE bot_pattern = "KnownGoodBot" -> 0
                [] bot_pattern = "KnownBadBot"  -> 900
                [] bot_pattern = "Suspicious"   -> 500
                [] OTHER                        -> 100
      s1 == IF ~ has_standard_accept(headers) /\ bot_pattern # "KnownGoodBot"
              THEN ScorePlusAccept(base) ELSE base
      s2 == IF has_valid_challenge THEN ScoreMinusChallenge(s1) ELSE s1
  IN  Clamp01(s2)

HexUpper == "0123456789ABCDEF"

\* The characters encodeURIComponent leaves as they are.
UriUnreserved ==
  "ABCDEFGHIJKLMNOPQRSTUVWXYZabcdefghijklmnopqrstuvwxyz0123456789-_.!~*'(" \o ")"

\* encodeURIComponent of every character
UriTable ==
  [c \in DOMAIN ByteTable |->
     IF StrFind(UriUnreserved, c) > 0 THEN c
     ELSE "%" \o CharAt(HexUpper, (ByteTable[c] \div 16) + 1)
              \o CharAt(HexUpper, (ByteTable[c] % 16) + 1)]

\* encodeURIComponent, as the page's script calls it on the cookie value:
\* every character mapped, half by half
RECURSIVE encodeURIComponent(_)
encodeURIComponent(s) ==
  IF s = "" THEN ""
  ELSE IF Len(s) = 1 THEN UriTable[s]
  ELSE encodeURIComponent(SubSeq(s, 1, Len(s) \div 2))
         \o encodeURIComponent(SubSeq(s, (Len(s) \div 2) + 1, Len(s)))

\* One hex digit's value, either case; -1 if it is none.
HexDigitValue(c) ==
  IF c = "" THEN -1 ELSE StrFind(HexDigits, to_lowercase(c)) - 1

\* u8::from_str_radix(hex, 16) for the two characters after a '%':
\* two hex digits, or a '+' and one hex digit; -1 stands for Err.
HexByteValue(hex) ==
  LET hi == HexDigitValue(CharAt(hex, 1))
      lo == HexDigitValue(CharAt(hex, 2))
  IN  IF Len(hex) # 2 \/ lo < 0 THEN -1
      ELSE IF CharAt(hex, 1) = "+" THEN lo
      ELSE IF hi < 0 THEN -1
      ELSE hi * 16 + lo

\* js_challenge.rs urldecode: the characters before the first '%' are
\* pushed as they are, the '%' takes the next two characters with it.
RECURSIVE urldecode(_)
urldecode(s) ==
  LET i   == StrFind(s, "%")
      hex == SubSeq(s, i + 1, Min(i + 2, Len(s)))
  IN  IF i = 0 THEN s
      ELSE SubSeq(s, 1, i - 1)
             \o (IF HexByteValue(hex) >= 0 THEN Char(HexByteValue(hex)) ELSE "%" \o hex)
             \o urldecode(SubSeq(s, i + 1 + Len(hex), Len(s)))

NoCookieValue == [some |-> FALSE, v |-> ""]

\* extract_challenge_cookie over the cookies of the header, in order
RECURSIVE ExtractFrom(_)
ExtractFrom(cookies) ==
  IF cookies = << >> THEN NoCookieValue
  ELSE LET cookie == trim(cookies[1])
       IN  IF starts_with(cookie, "__l7w_bc=")
             THEN [some |-> TRUE, v |-> urldecode(SubSeq(cookie, 10, Len(cookie)))]
             ELSE ExtractFrom(Tail(cookies))

\* extract_challenge_cookie
extract_challenge_cookie(cookie_header) == ExtractFrom(split(cookie_header, ";"))

\* The requests: their User-Agent and Accept headers, and the configurations.
UserAgents == {"", "curl/8", "curl/8 (Bingbot)", "AcmeBot", "Mozilla/5.0 Chrome/120"}

AcceptHeaders ==
  { << >>, <<[k |-> "accept", v |-> "*/*"]>>, <<[k |-> "Accept", v |-> "text/html"]>> }

BotModes == {"Block", "Challenge", "Detect"}

\* score_threshold, in thousandths (0.7 is the default, 0.3 a strict one)
Thresholds == {300, 700}

\* known_bots_allowlist
Allowlists == { << >>, <<"acmebot">>, <<"">> }

\* JsChallengeConfig.secret and ttl_secs
BotSecrets == {"alpha"}
BotTtls == {1}

\* The configurations: every enabled one, and one that is disabled.
BotConfigs ==
  { c \in [enabled : BOOLEAN, mode : BotModes, score_threshold : Thresholds,
           known_bots_allowlist : Allowlists,
           js_challenge : [enabled : BOOLEAN, secret : BotSecrets, ttl_secs : BotTtls]] :
      c.enabled \/ (c.mode = "Detect" /\ c.known_bots_allowlist = << >>
                      /\ ~ c.js_challenge.enabled) }

\* The last check: the request's User-Agent, the result (score: the score a
\* Detect result carries), and for the properties what check computed on the
\* way: the pattern, has_valid_challenge and the bot score.
NoBotResult == [pc |-> "none", ua |-> "", res |-> "none", score |-> -1,
                pattern |-> "none", valid |-> FALSE, bot_score |-> -1, ip |-> ""]

\* BotDetector::new(config)
BotNew(cfgs) ==
  /\ botCfg \in cfgs
  /\ sessions = << >>
  /\ botRes = NoBotResult

\* The Cookie header values a request may carry: none, one without the
\* challenge cookie, and, when a challenge page was issued, the cookie its
\* script sets.
CookieHeaders ==
  { [some |-> FALSE, v |-> ""], [some |-> TRUE, v |-> "sid=1"] }
    \cup { [some |-> TRUE,
            v |-> "sid=1; __l7w_bc="
                    \o encodeURIComponent(ChallengeCookieValue(ckPage, nonce))] :
           nonce \in { n \in PowNonces : ckPage.kind = "bc" } }

\* The client addresses the detector is given
BotClientIps == ClientIps \cup {"10.0.0.8", "[::1]:4711"}

\* The requests' header lists: a User-Agent, then the Accept header if any
RequestHeaders ==
  { <<[k |-> "User-Agent", v |-> ua]>> \o accept : ua \in UserAgents, accept \in AcceptHeaders }

\* Every Cookie header value of the runs: CookieHeaders for every page
AllCookieHeaders ==
  { [some |-> FALSE, v |-> ""], [some |-> TRUE, v |-> "sid=1"] }
    \cup { [some |-> TRUE,
            v |-> "sid=1; __l7w_bc="
                    \o encodeURIComponent(
                         ChallengeCookieValue(generate_challenge(ip, secret, now), nonce))] :
           ip \in BotClientIps, secret \in BotSecrets,
           now \in UnixStart .. (UnixStart + MaxSecs), nonce \in PowNonces }

\* check's User-Agent lookup and classify_user_agent, for every request
\* and allowlist of the runs
BotPatternOf ==
  [headers \in RequestHeaders, custom_allowlist \in Allowlists |->
     classify_user_agent(HeaderValue(headers, "user-agent"), custom_allowlist)]

\* check's has_valid_challenge: the cookie extracted from the header and
\* verified, for every header, client, secret, TTL and second of the runs
HasValidChallenge ==
  [client_ip \in BotClientIps, cookie_header \in AllCookieHeaders,
   secret \in BotSecrets, ttl_secs \in BotTtls,
   now \in UnixStart .. (UnixStart + MaxSecs) |->
     LET cookie == IF cookie_header.some THEN extract_challenge_cookie(cookie_header.v)
                   ELSE NoCookieValue
     IN  /\ cookie.some
         /\ verify_challenge_cookie(cookie.v, client_ip, secret, ttl_secs, now)]

\* check's User-Agent lookup for every request of the runs
UserAgentOf == [headers \in RequestHeaders |-> HeaderValue(headers, "user-agent")]

\* compute_bot_score for every pattern, cookie verdict and request of the runs
BotScoreOf ==
  [bot_pattern \in {"KnownGoodBot", "KnownBadBot", "Suspicious", "LikelyHuman"},
   has_valid_challenge \in BOOLEAN, headers \in RequestHeaders |->
     compute_bot_score(bot_pattern, has_valid_challenge, headers)]

\* compute_fingerprint(..).header_order_hash for every request of the runs
HeaderOrderHashOf == [headers \in RequestHeaders |-> header_order_hash(headers)]

\* check's branch on the score with the Challenge mode not looking at the
\* challenge cookie
BotModeResultNoCookie(cfg, bot_score, has_valid_challenge) ==
  IF bot_score >= cfg.score_threshold
    THEN CASE cfg.mode = "Block" -> "Block"
           [] cfg.mode = "Challenge" ->
                IF cfg.js_challenge.enabled THEN "Challenge" ELSE "Block"
           [] OTHER -> "Detect"
  ELSE IF cfg.mode = "Detect" THEN "Detect" ELSE "Allow"

\* check's branch on the score with the Detect mode allowing below the threshold
\* and the Challenge mode never falling back to Block
BotModeResultLax(cfg, bot_score, has_valid_challenge) ==
  IF bot_score >= cfg.score_threshold
    THEN CASE cfg.mode = "Block" -> "Block"
           [] cfg.mode = "Challenge" ->
                IF has_valid_challenge THEN "Allow" ELSE "Challenge"
           [] OTHER -> "Detect"
  ELSE "Allow"

\* check's branch on the score: the result for a request that is no good bot
BotModeResult(cfg, bot_score, has_valid_challenge) ==
  IF bot_score >= cfg.score_threshold
    THEN CASE cfg.mode = "Block" -> "Block"
           [] cfg.mode = "Challenge" ->
                IF has_valid_challenge THEN "Allow"
                ELSE IF cfg.js_challenge.enabled THEN "Challenge"
                ELSE "Block"
           [] OTHER -> "Detect"
  ELSE IF cfg.mode = "Detect" THEN "Detect" ELSE "Allow"

\* check from the classification on: the score, the fingerprint and the result
BotDecideWith(cfg, headers, bot_pattern, has_valid_challenge, bot_score) ==
  [ua       |-> UserAgentOf[headers],
   pattern  |-> bot_pattern,
   valid    |-> has_valid_challenge,
   score    |-> bot_score,
   hash     |-> HeaderOrderHashOf[headers],
   result   |-> IF bot_pattern = "KnownGoodBot" THEN "Allow"
                ELSE BotModeResult(cfg, bot_score, has_valid_challenge)]

\* check from the classification and the cookie verdict on
BotScored(cfg, headers, bot_pattern, has_valid_challenge) ==
  BotDecideWith(cfg, headers, bot_pattern, has_valid_challenge,
                BotScoreOf[bot_pattern, has_valid_challenge, headers])

\* What BotDetector::check computes for a request at second now
BotDecide(cfg, client_ip, headers, cookie_header, now) ==
  BotScored(cfg, headers, BotPatternOf[headers, cfg.known_bots_allowlist],
            HasValidChallenge[client_ip, cookie_header, cfg.js_challenge.secret,
                              cfg.js_challenge.ttl_secs, now])

\* check's effects on the detector, d being what it computed
BotRecord(client_ip, d) ==
  IF ~ botCfg.enabled
    THEN /\ botRes' = [NoBotResult EXCEPT !.pc = "done", !.ua = d.ua,
                                          !.res = "Allow", !.ip = client_ip]
         /\ UNCHANGED <<sessions, ckPage>>
    ELSE /\ sessions' =
              [x \in DOMAIN sessions \cup {client_ip} |->
                 IF x = client_ip
                   THEN [last_seen |-> clock, fingerprint_hash |-> d.hash]
                   ELSE sessions[x]]
         /\ botRes' = [pc |-> "done", ua |-> d.ua, res |-> d.result,
                       score |-> IF d.result = "Detect" THEN d.score ELSE -1,
                       pattern |-> d.pattern, valid |-> d.valid,
                       bot_score |-> d.score, ip |-> client_ip]
         /\ ckPage' = IF d.result = "Challenge"
                        THEN generate_challenge(client_ip, botCfg.js_challenge.secret,
                                                unixNow)
                        ELSE ckPage

\* BotDetector::check(client_ip, headers, method, cookie_header)
BotCheck(client_ip, headers, cookie_header) ==
  BotRecord(client_ip, BotDecide(botCfg, client_ip, headers, cookie_header, unixNow))

\* A request reaches the detector.
BotRequest ==
  /\ \E cookie_header \in CookieHeaders, client_ip \in ClientIps,
        ua \in UserAgents, accept \in AcceptHeaders :
       BotCheck(client_ip, <<[k |-> "User-Agent", v |-> ua]>> \o accept, cookie_header)
  /\ UNCHANGED botCfg /\ BotFrame

\* BotDetector::cleanup_sessions(max_age)
BotCleanupSessions(max_age) ==
  /\ LET keep == { x \in DOMAIN sessions :
                     DurationSince(clock, sessions[x].last_seen) < max_age }
     IN  sessions' = [x \in keep |-> sessions[x]]
  /\ UNCHANGED <<botCfg, botRes, ckPage>> /\ BotFrame

BotNext ==
  \/ BotRequest
  \/ \E max_age \in {0, TicksPerSec} : BotCleanupSessions(max_age)

-----------------------------------------------------------------------------
(* AntiScraper: crates/anti-scraping/src/lib.rs, session.rs, honeypot.rs   *)
(* Scores are in thousandths; for the bot scores and thresholds drawn here *)
(* every f64 sum of compute_score compares with the threshold as the exact *)
(* sum does.                                                               *)

ScModes == {"Block", "Challenge", "Detect"}

\* default_trap_path_prefix
TrapPathPrefix == "/.well-known/l7w-trap"

\* score_threshold: the default 0.6, and 1.0
ScThresholds == {600, 1000}

\* CaptchaConfig.secret and ttl_secs
ScCaptchaSecrets == {"alpha"}
ScCaptchaTtls == {1}

\* AntiScrapingConfig: every enabled one, and one that is disabled
ScConfigs ==
  { c \in [enabled : BOOLEAN, mode : ScModes,
           captcha : [enabled : BOOLEAN, ttl_secs : ScCaptchaTtls,
                      secret : ScCaptchaSecrets],
           honeypot : [enabled : BOOLEAN, trap_path_prefix : {TrapPathPrefix}],
           obfuscation : [enabled : {TRUE}],
           score_threshold : ScThresholds] :
      c.enabled \/ (c.mode = "Block" /\ c.captcha.enabled /\ c.honeypot.enabled
                      /\ c.score_threshold = 600) }

ScIps == {"10.0.0.7"}

\* The paths requested: a page, a page no session has seen, the trap link.
ScPaths == {"/page", "/p21", TrapPathPrefix \o "/0a1b2c3d4e5f"}

\* bot_score of a request
BotScores == {0, 1000}

\* unique_path_count above which a session counts as crawling
ManyPaths == 20

\* The paths a crawler went through before: ManyPaths pages.
CrawledPaths == { "/p" \o to_string(n) : n \in 1 .. ManyPaths }

\* honeypot.rs is_trap_request
is_trap_request(path, trap_path_prefix) == starts_with(path, trap_path_prefix)

\* ScrapingSession::new at Instant now
ScrapingSessionNew(now) ==
  [first_seen |-> now, last_seen |-> now, request_count |-> 0,
   unique_path_count |-> 0, path_hashes |-> {}, trap_triggered |-> FALSE,
   captcha_solved |-> FALSE, scraping_score |-> 0]

\* compute_score without the trap signal
ComputeScoreNoTrap(session, bot_score, subtick) ==
  LET elapsed == DurationSince(session.last_seen, session.first_seen)
      fast    == IF elapsed > 0 THEN session.request_count * TicksPerSec > elapsed
                 ELSE subtick
      s2 == IF fast THEN 300 ELSE 0
      s3 == IF session.unique_path_count > ManyPaths THEN s2 + 200 ELSE s2
      s4 == s3 + (bot_score * 3) \div 10
      s5 == IF session.captcha_solved THEN s4 - 500 ELSE s4
  IN  Clamp01(s5)

\* compute_score's high request rate signal: elapsed > 0.0 and
\* request_count / elapsed > 1.0. Within one clock tick the elapsed time is
\* zero or a fraction of the tick, as subtick says.
HighRequestRate(session, subtick) ==
  LET elapsed == DurationSince(session.last_seen, session.first_seen)
  IN  IF elapsed > 0 THEN session.request_count * TicksPerSec > elapsed
      ELSE subtick

\* ScrapingSession::compute_score. Within one clock tick the elapsed time
\* between first_seen and last_seen is zero or a fraction of the tick, as
\* subtick says; a fraction of a tick makes the rate exceed one per second.
compute_score(session, bot_score, subtick) ==
  LET elapsed == DurationSince(session.last_seen, session.first_seen)
      fast    == HighRequestRate(session, subtick)
      s1 == IF session.trap_triggered THEN 1000 ELSE 0
      s2 == IF fast THEN s1 + 300 ELSE s1
      s3 == IF session.unique_path_count > ManyPaths THEN s2 + 200 ELSE s2
      s4 == s3 + (bot_score * 3) \div 10
      s5 == IF session.captcha_solved THEN s4 - 500 ELSE s4
  IN  Clamp01(s5)

\* DefaultHasher over the path: a 64-bit value, written here as a string.
\* The paths of the runs hash to distinct values, but for one path that
\* is taken to hash to the value of "/page".
PathCollides == "/egap"
path_hash(path) == IF path = PathCollides THEN "#/page" ELSE "#" \o path

\* record_request counting every request as a new path
RecordRequestCountsAll(session, path, bot_score, now, subtick) ==
  LET counted == [session EXCEPT
                    !.request_count = @ + 1,
                    !.last_seen = now,
                    !.unique_path_count = @ + 1,
                    !.path_hashes = @ \cup {path_hash(path)}]
  IN  [counted EXCEPT !.scraping_score = compute_score(counted, bot_score, subtick)]

\* ScrapingSession::record_request at Instant now
record_request(session, path, bot_score, now, subtick) ==
  LET counted == [session EXCEPT
                    !.request_count = @ + 1,
                    !.last_seen = now,
                    !.unique_path_count =
                       IF path_hash(path) \in session.path_hashes THEN @ ELSE @ + 1,
                    !.path_hashes = @ \cup {path_hash(path)}]
  IN  [counted EXCEPT !.scraping_score = compute_score(counted, bot_score, subtick)]

\* captcha.rs urldecode: '+' is a space, a '%' takes up to two characters
\* with it and from_str_radix reads them, one hex digit being enough.
CaptchaHexValue(hex) ==
  IF Len(hex) = 2 THEN HexByteValue(hex)
  ELSE IF Len(hex) = 1 THEN HexDigitValue(hex)
  ELSE -1

RECURSIVE captcha_urldecode(_)
captcha_urldecode(s) ==
  LET p   == StrFind(s, "%")
      q   == StrFind(s, "+")
      i   == IF p = 0 THEN q ELSE IF q = 0 THEN p ELSE Min(p, q)
      hex == SubSeq(s, i + 1, Min(i + 2, Len(s)))
  IN  IF i = 0 THEN s
      ELSE IF i = q
        THEN SubSeq(s, 1, i - 1) \o " " \o captcha_urldecode(SubSeq(s, i + 1, Len(s)))
      ELSE SubSeq(s, 1, i - 1)
             \o (IF CaptchaHexValue(hex) >= 32 THEN Char(CaptchaHexValue(hex))
                 ELSE "%" \o hex)
             \o captcha_urldecode(SubSeq(s, i + 1 + Len(hex), Len(s)))

\* extract_captcha_cookie over the pairs of the header, in order
RECURSIVE ExtractCaptchaFrom(_)
ExtractCaptchaFrom(pairs) ==
  IF pairs = << >> THEN NoCookieValue
  ELSE LET pair == trim(pairs[1])
       IN  IF starts_with(pair, "__l7w_captcha=")
             THEN [some |-> TRUE, v |-> captcha_urldecode(SubSeq(pair, 15, Len(pair)))]
             ELSE ExtractCaptchaFrom(Tail(pairs))

extract_captcha_cookie(cookie_header) == ExtractCaptchaFrom(split(cookie_header, ";"))

\* The Cookie headers a client sends: none, or the cookie the CAPTCHA page
\* sets for the right answer and for a wrong one, after another cookie.
ScCookieHeaders ==
  [ip \in ScIps |->
     { [some |-> FALSE, v |-> ""] }
       \cup { [some |-> TRUE,
               v |-> "sid=1; __l7w_captcha="
                       \o encodeURIComponent(
                            CaptchaCookieValue(
                              generate_captcha_page(ip, secret, 2, 2, UnixStart), answer))] :
              answer \in {"4", "5"}, secret \in ScCaptchaSecrets }]

\* check_request's has_valid_captcha apart from captcha.enabled: the cookie
\* extracted from the header and verified, for every header, client, secret,
\* TTL and second of the runs.
HasValidCaptcha ==
  [client_ip \in ScIps, cookie_header \in UNION { ScCookieHeaders[ip] : ip \in ScIps },
   secret \in ScCaptchaSecrets, ttl_secs \in ScCaptchaTtls,
   now \in UnixStart .. (UnixStart + MaxSecs) |->
     LET cookie == IF cookie_header.some THEN extract_captcha_cookie(cookie_header.v)
                   ELSE NoCookieValue
     IN  /\ cookie.some
         /\ verify_captcha_cookie(cookie.v, client_ip, secret, ttl_secs, now)]

\* The last check_request: its arguments, its result, what the session held
\* before (trapBefore) and after (solved), and for the properties the clients
\* that have requested a trap path so far (hit) and whether this one had.
NoScResult == [pc |-> "none", ip |-> "", trap |-> FALSE, res |-> "none", score |-> -1,
               valid |-> FALSE, trapBefore |-> FALSE, solved |-> FALSE,
               hit |-> {}, hitBefore |-> FALSE,
               path |-> "", cookieOk |-> FALSE,
               rate_term |-> FALSE, spaced |-> TRUE]

NoSession == [request_count |-> -1]

\* A session as a crawler's ManyPaths requests within one clock tick leave it
CrawlerSession ==
  [ScrapingSessionNew(0) EXCEPT !.request_count = ManyPaths,
                                !.unique_path_count = ManyPaths,
                                !.path_hashes = { path_hash(q) : q \in CrawledPaths }]

\* AntiScraper::new
ScNew(cfgs, seeds) ==
  /\ scCfg \in cfgs
  /\ scSessions \in [ScIps -> IF scCfg.enabled THEN seeds ELSE {NoSession}]
  /\ scRes = NoScResult

\* sessions.entry(client_ip).or_insert_with(ScrapingSession::new)
ScEntry(client_ip) ==
  IF scSessions[client_ip] = NoSession THEN ScrapingSessionNew(clock)
  ELSE scSessions[client_ip]

\* check_request's mode-specific logic with the Challenge mode not looking
\* at the CAPTCHA cookie
ScModeResultNoCaptcha(score, has_valid_captcha) ==
  IF score >= scCfg.score_threshold
    THEN CASE scCfg.mode = "Block" -> "Block"
           [] scCfg.mode = "Challenge" ->
                IF scCfg.captcha.enabled THEN "Challenge" ELSE "Block"
           [] OTHER -> "Detect"
  ELSE IF scCfg.mode = "Detect" THEN "Detect" ELSE "Allow"

\* The result of check_request's mode-specific logic
ScModeResult(score, has_valid_captcha) ==
  IF score >= scCfg.score_threshold
    THEN CASE scCfg.mode = "Block" -> "Block"
           [] scCfg.mode = "Challenge" ->
                IF has_valid_captcha THEN "Allow"
                ELSE IF scCfg.captcha.enabled THEN "Challenge"
                ELSE "Block"
           [] OTHER -> "Detect"
  ELSE IF scCfg.mode = "Detect" THEN "Detect" ELSE "Allow"

\* AntiScraper::check_request(client_ip, path, method, cookie_header, bot_score)
ScCheckRequest(client_ip, path, cookie_header, bot_score, subtick) ==
  LET trap   == scCfg.honeypot.enabled
                  /\ is_trap_request(path, scCfg.honeypot.trap_path_prefix)
      has_valid_captcha ==
        /\ scCfg.captcha.enabled
        /\ HasValidCaptcha[client_ip, cookie_header, scCfg.captcha.secret,
                           scCfg.captcha.ttl_secs, unixNow]
      before == scSessions[client_ip]
      base   == [pc |-> "done", ip |-> client_ip, trap |-> trap, res |-> "Allow",
                 score |-> -1, valid |-> FALSE,
                 trapBefore |-> (before # NoSession /\ before.trap_triggered),
                 solved |-> FALSE,
                 hit |-> scRes.hit, hitBefore |-> (client_ip \in scRes.hit),
                 path |-> path,
                 cookieOk |-> HasValidCaptcha[client_ip, cookie_header, scCfg.captcha.secret,
                                              scCfg.captcha.ttl_secs, unixNow]]
      trapped == record_request([ScEntry(client_ip) EXCEPT !.trap_triggered = TRUE],
                                path, bot_score, clock, subtick)
      session == record_request(
                   [ScEntry(client_ip) EXCEPT
                      !.captcha_solved = IF has_valid_captcha THEN TRUE ELSE @],
                   path, bot_score, clock, subtick)
  IN  /\ IF ~ scCfg.enabled
           THEN /\ scRes' = base
                /\ UNCHANGED scSessions
         ELSE IF trap
           THEN /\ scSessions' = [scSessions EXCEPT ![client_ip] = trapped]
                /\ scRes' = [base EXCEPT !.res = "TrapTriggered",
                                         !.hit = @ \cup {client_ip}]
         ELSE /\ scSessions' = [scSessions EXCEPT ![client_ip] = session]
              /\ scRes' = [base EXCEPT
                             !.res = ScModeResult(session.scraping_score, has_valid_captcha),
                             !.score = session.scraping_score,
                             !.valid = has_valid_captcha,
                             !.solved = session.captcha_solved]
      /\ UNCHANGED <<scCfg, clock>> /\ ScFrame

\* The requests a session has recorded in the run, the crawl before it apart
ScSent(session) ==
  IF session = NoSession THEN 0
  ELSE IF \A q \in CrawledPaths : path_hash(q) \in session.path_hashes
    THEN session.request_count - ManyPaths
  ELSE session.request_count

\* A request reaches the anti-scraper, within the requests one run makes.
ScRequest ==
  \E client_ip \in ScIps, path \in ScPaths, bot_score \in BotScores, subtick \in BOOLEAN :
    \E cookie_header \in ScCookieHeaders[client_ip] :
      /\ ScSent(scSessions[client_ip]) < MaxRequests
      /\ ScCheckRequest(client_ip, path, cookie_header, bot_score, subtick)

\* AntiScraper::cleanup_sessions(max_age)
ScCleanupSessions(max_age) ==
  /\ scSessions' =
       [x \in ScIps |->
          IF scSessions[x] # NoSession
               /\ DurationSince(clock, scSessions[x].last_seen) < max_age
            THEN scSessions[x] ELSE NoSession]
  /\ UNCHANGED <<scCfg, scRes, clock>> /\ ScFrame

\* The monotonic clock advances.
ScTick ==
  /\ clock < MaxTicks
  /\ clock' = clock + 1
  /\ UNCHANGED scVars /\ ScFrame

ScNext ==
  \/ ScRequest
  \/ \E max_age \in {0, MaxTicks + 1} : ScCleanupSessions(max_age)
  \/ ScTick

\* The paths recorded in the runs of a session on its own
SessPaths == {"/page", "/p21", PathCollides}

\* Whether the client's requests so far, this one at Instant now included,
\* were each more than one second after the one before
SessSpaced(client_ip, now) ==
  IF scSessions[client_ip] = NoSession THEN TRUE
  ELSE /\ scRes.pc = "recorded" /\ scRes.spaced
       /\ DurationSince(now, scSessions[client_ip].last_seen) > TicksPerSec

\* ScrapingSession::new(), then session.record_request(path, bot_score),
\* on the session of client_ip; the result notes whether compute_score
\* added the high request rate term.
SessRecord(client_ip, path, bot_score, subtick) ==
  /\ ScSent(scSessions[client_ip]) < MaxRecords
  /\ scSessions' = [scSessions EXCEPT ![client_ip] =
                      record_request(ScEntry(client_ip), path, bot_score, clock, subtick)]
  /\ scRes' = [NoScResult EXCEPT
                 !.pc = "recorded", !.ip = client_ip, !.path = path,
                 !.rate_term = HighRequestRate(scSessions'[client_ip], subtick),
                 !.spaced = SessSpaced(client_ip, clock)]
  /\ UNCHANGED <<scCfg, clock>> /\ ScFrame

\* The monotonic clock advances.
SessTick ==
  /\ clock < SessMaxTicks
  /\ clock' = clock + 1
  /\ UNCHANGED scVars /\ ScFrame

SessNext ==
  \/ \E client_ip \in ScIps, path \in SessPaths, bot_score \in BotScores, subtick \in BOOLEAN :
       SessRecord(client_ip, path, bot_score, subtick)
  \/ SessTick

-----------------------------------------------------------------------------
(* AntiScraper::process_response: crates/anti-scraping/src/lib.rs,         *)
(* honeypot.rs, obfuscation.rs.  Bodies are strings of the model's ASCII   *)
(* alphabet in which three characters stand for bytes outside it.          *)

\* ZERO WIDTH SPACE (bit 0) and ZERO WIDTH NON-JOINER (bit 1), three bytes
\* each in UTF-8, and a byte that is not valid UTF-8
ZWC_ZERO == "^"
ZWC_ONE == "~"
InvalidByte == "|"

\* body.len(): the bytes of the body
RECURSIVE ByteLen(_)
ByteLen(body) ==
  IF Len(body) <= 1 THEN (IF body \in {ZWC_ZERO, ZWC_ONE} THEN 3 ELSE Len(body))
  ELSE ByteLen(SubSeq(body, 1, Len(body) \div 2))
         + ByteLen(SubSeq(body, (Len(body) \div 2) + 1, Len(body)))

\* std::str::from_utf8(body).is_ok()
IsUtf8(body) == StrFind(body, InvalidByte) = 0

\* str::find(&str): the first position of p in s, 0 when there is none
str_find(s, p) ==
  LET at == { i \in 1 .. Len(s) - Len(p) + 1 : SubSeq(s, i, i + Len(p) - 1) = p }
  IN  IF at = {} THEN 0 ELSE CHOOSE i \in at : \A j \in at : i <= j

\* n times the string s
RECURSIVE Repeat(_, _)
Repeat(s, n) == IF n <= 0 THEN "" ELSE s \o Repeat(s, n - 1)

NoBody == [some |-> FALSE, v |-> ""]

\* generate_trap_html(trap_path_prefix, client_ip, secret)
generate_trap_html(trap_path_prefix, client_ip, secret) ==
  "<a href=\"" \o trap_path_prefix \o "/" \o SubSeq(compute_hmac(secret, client_ip), 1, 12)
    \o "\" style=\"position:absolute;left:-10000px;top:-10000px;width:1px;height:1px;"
    \o "overflow:hidden\" aria-hidden=\"true\" tabindex=\"-1\"></a>"

\* inject_trap(body, trap_html)
inject_trap(body, trap_html) ==
  IF ~ IsUtf8(body) \/ str_find(to_lowercase(body), "</body>") = 0 THEN NoBody
  ELSE [some |-> TRUE,
        v |-> SubSeq(body, 1, str_find(to_lowercase(body), "</body>") - 1)
                \o trap_html
                \o SubSeq(body, str_find(to_lowercase(body), "</body>"), Len(body))]

\* The first four bytes of SHA-256(client_ip), for the clients of the runs
Sha256First4 ==
  [client_ip \in ClientIps |->
     IF client_ip = "10.0.0.7" THEN <<19, 14, 77, 171>> ELSE <<239, 248, 231, 202>>]

\* The bits of a byte, most significant first, as zero-width characters
ByteBits(byte) ==
  LET bit(i) == IF (byte \div (2 ^ i)) % 2 = 1 THEN ZWC_ONE ELSE ZWC_ZERO
  IN  bit(7) \o bit(6) \o bit(5) \o bit(4) \o bit(3) \o bit(2) \o bit(1) \o bit(0)

\* generate_watermark(client_ip)
generate_watermark(client_ip) ==
  ByteBits(Sha256First4[client_ip][1]) \o ByteBits(Sha256First4[client_ip][2])
    \o ByteBits(Sha256First4[client_ip][3]) \o ByteBits(Sha256First4[client_ip][4])

\* char::is_whitespace, for the characters of the bodies
is_whitespace(c) == c = " "

max_injections == 5

\* The loop of inject_zero_width_chars from one '>' to the next: the rest of
\* the body with the watermark after every '>' that starts a text node
RECURSIVE InjectRest(_, _, _)
InjectRest(rest, watermark, injection_count) ==
  LET idx  == StrFind(rest, ">")
      next == CharAt(rest, idx + 1)
      text == idx < Len(rest) /\ next # "<" /\ ~ is_whitespace(next)
  IN  IF idx = 0 \/ injection_count >= max_injections THEN rest
      ELSE SubSeq(rest, 1, idx)
             \o (IF text THEN watermark ELSE "")
             \o InjectRest(SubSeq(rest, idx + 1, Len(rest)), watermark,
                           injection_count + (IF text THEN 1 ELSE 0))

\* inject_zero_width_chars(body, client_ip)
inject_zero_width_chars(body, client_ip) ==
  IF ~ IsUtf8(body) \/ InjectRest(body, "", 0) = InjectRest(body, "w", 0) THEN NoBody
  ELSE [some |-> TRUE, v |-> InjectRest(body, generate_watermark(client_ip), 0)]

\* The loop of extract_watermark over one block of the text: a bit for every
\* zero-width character, and the end at another character once 32 bits are
\* collected
RECURSIVE ScanBlock(_, _)
ScanBlock(block, st) ==
  IF block = "" \/ st.done THEN st
  ELSE IF CharAt(block, 1) \in {ZWC_ZERO, ZWC_ONE}
    THEN ScanBlock(SubSeq(block, 2, Len(block)),
                   [bits |-> st.bits \o CharAt(block, 1), done |-> FALSE])
  ELSE IF Len(st.bits) >= 32 THEN [bits |-> st.bits, done |-> TRUE]
  ELSE ScanBlock(SubSeq(block, 2, Len(block)), st)

\* That loop over the whole text, sixteen characters at a time
RECURSIVE WatermarkBits(_, _)
WatermarkBits(text, st) ==
  IF text = "" \/ st.done THEN st.bits
  ELSE WatermarkBits(SubSeq(text, 17, Len(text)), ScanBlock(SubSeq(text, 1, IF Len(text) < 16 THEN Len(text) ELSE 16), st))

\* The byte made of the chunk of eight bits number chunk
ChunkByte(bits, chunk) ==
  LET bit(k) == IF CharAt(bits, (chunk - 1) * 8 + k) = ZWC_ONE THEN 2 ^ (8 - k) ELSE 0
  IN  bit(1) + bit(2) + bit(3) + bit(4) + bit(5) + bit(6) + bit(7) + bit(8)

\* hex::encode of one byte
HexByte(byte) == CharAt(HexDigits, (byte \div 16) + 1) \o CharAt(HexDigits, (byte % 16) + 1)

\* The end of extract_watermark: none under 32 bits, else the hex of the
\* first four bytes
WatermarkOfBits(bits) ==
  IF Len(bits) < 32 THEN NoBody
  ELSE [some |-> TRUE,
        v |-> HexByte(ChunkByte(bits, 1)) \o HexByte(ChunkByte(bits, 2))
                \o HexByte(ChunkByte(bits, 3)) \o HexByte(ChunkByte(bits, 4))]

\* extract_watermark(text)
extract_watermark(text) == WatermarkOfBits(WatermarkBits(text, [bits |-> "", done |-> FALSE]))

\* body.len() > MAX_BODY_BUFFER, with the bound included
BodyTooLargeInclusive(body) == ByteLen(body) >= MAX_BODY_BUFFER

\* body.len() > MAX_BODY_BUFFER
BodyTooLarge(body) == ByteLen(body) > MAX_BODY_BUFFER

\* process_response after its early returns: the trap, then the watermark
\* into what the trap step left
Rewritten(cfg, client_ip, body, with_trap) ==
  IF cfg.obfuscation.enabled
       /\ inject_zero_width_chars(IF with_trap.some THEN with_trap.v ELSE body, client_ip).some
    THEN inject_zero_width_chars(IF with_trap.some THEN with_trap.v ELSE body, client_ip)
  ELSE with_trap

\* AntiScraper::process_response(client_ip, content_type, body)
process_response(cfg, client_ip, content_type, body) ==
  IF ~ cfg.enabled THEN NoBody
  ELSE IF ~ content_type.some THEN NoBody
  ELSE IF ~ str_contains(content_type.v, "text/html") THEN NoBody
  ELSE IF BodyTooLarge(body) THEN NoBody
  ELSE Rewritten(cfg, client_ip, body,
                 IF cfg.honeypot.enabled
                   THEN inject_trap(body, generate_trap_html(cfg.honeypot.trap_path_prefix,
                                                             client_ip, cfg.captcha.secret))
                   ELSE NoBody)

\* The characters of the short bodies
BodyChars == {"<", ">", "t", " ", ZWC_ZERO, ZWC_ONE, InvalidByte}

\* Every body of at most n of those characters
RECURSIVE BodiesUpTo(_)
BodiesUpTo(n) ==
  IF n = 0 THEN {""}
  ELSE BodiesUpTo(n - 1)
         \cup { b \o c : b \in { x \in BodiesUpTo(n - 1) : Len(x) = n - 1 }, c \in BodyChars }

\* Pages with a closing body tag: of exactly MAX_BODY_BUFFER bytes, of one
\* byte more, and shorter ones
Pages ==
  { Repeat("t", MAX_BODY_BUFFER - 7) \o "</body>",
    Repeat("t", MAX_BODY_BUFFER - 6) \o "</body>",
    ">" \o Repeat("t", MAX_BODY_BUFFER - 8) \o "</BODY>",
    ">" \o Repeat("t", MAX_BODY_BUFFER - 7) \o "</BODY>",
    ">" \o Repeat("t", MAX_BODY_BUFFER - 1),
    ">" \o Repeat("t", MAX_BODY_BUFFER),
    "</Body>", ZWC_ZERO \o "</body>" }

\* The Content-Type header of the upstream response, if any
ContentTypes ==
  { [some |-> FALSE, v |-> ""] }
    \cup { [some |-> TRUE, v |-> t] :
             t \in {"text/html", "text/html; charset=utf-8", "application/json", "TEXT/HTML"} }

\* The configurations of the response runs
RwConfigs ==
  [enabled : BOOLEAN, mode : {"Block"},
   captcha : [enabled : {TRUE}, ttl_secs : ScCaptchaTtls, secret : ScCaptchaSecrets],
   honeypot : [enabled : BOOLEAN, trap_path_prefix : {TrapPathPrefix}],
   obfuscation : [enabled : BOOLEAN],
   score_threshold : {600}]

NoResponse == [pc |-> "none", ip |-> "", content_type |-> [some |-> FALSE, v |-> ""],
               body |-> "", res |-> NoBody]

NoWatermark == [pc |-> "none", ip |-> "", body |-> "", out |-> NoBody, got |-> NoBody]

RwFrame ==
  UNCHANGED <<trieVars, repVars, clock, tbVars, swVars, ckVars, botVars, scVars, plVars,
              usVars, lmVars, ldVars, rtVars>>

\* The bodies of the runs
RwBodies == Pages \cup BodiesUpTo(MaxBody)
WmBodies == BodiesUpTo(MaxBody + 1) \cup {">t>t>t>t>t>t", "<p>t</p>"}

\* Each run makes one call: none has been made yet
RwIdle == scOut.pc = "none" /\ wmk.pc = "none"

\* A response body passes through process_response.
ScProcessResponse(client_ip, content_type, body) ==
  /\ RwIdle
  /\ scOut' = [pc |-> "done", ip |-> client_ip, content_type |-> content_type,
               body |-> body,
               res |-> process_response(scCfg, client_ip, content_type, body)]
  /\ UNCHANGED wmk /\ RwFrame

\* inject_zero_width_chars is applied to a body.
WmInject(body, client_ip) ==
  /\ RwIdle
  /\ wmk' = [pc |-> "injected", ip |-> client_ip, body |-> body,
             out |-> inject_zero_width_chars(body, client_ip), got |-> NoBody]
  /\ UNCHANGED scOut /\ RwFrame

\* extract_watermark is applied to the body the injection returned.
WmExtract ==
  /\ wmk.pc = "injected" /\ wmk.out.some
  /\ wmk' = [wmk EXCEPT !.pc = "extracted", !.got = extract_watermark(wmk.out.v)]
  /\ UNCHANGED scOut /\ RwFrame

RwNext ==
  \/ RwIdle /\ \E client_ip \in ClientIps, content_type \in ContentTypes, body \in RwBodies :
                  ScProcessResponse(client_ip, content_type, body)
  \/ RwIdle /\ \E client_ip \in ClientIps, body \in WmBodies : WmInject(body, client_ip)
  \/ WmExtract

RwInit == scOut = NoResponse /\ wmk = NoWatermark

-----------------------------------------------------------------------------
(* UpstreamSelector: crates/proxy/src/upstream.rs, and                     *)
(* Layer7WafProxy::upstream_peer: crates/proxy/src/service.rs.             *)

\* The address of the i-th server
UsAddrs == [i \in 1 .. MaxServers |-> "10.1.0." \o to_string(i) \o ":80"]

\* UpstreamConfig: a name and up to MaxServers servers with their weights
UsServerLists ==
  UNION { [1 .. n -> 0 .. MaxWeight] : n \in 0 .. MaxServers }
UsConfigs ==
  { [name |-> "backend",
     servers |-> [i \in DOMAIN w |-> [addr |-> UsAddrs[i], weight |-> w[i]]]] :
      w \in UsServerLists }

\* The names routes give their upstream
UsRouteUpstreams == {"backend", "other"}

\* Server i repeated weight times
RECURSIVE RepeatIndex(_, _)
RepeatIndex(i, weight) == IF weight = 0 THEN << >> ELSE <<i>> \o RepeatIndex(i, weight - 1)

\* The weighted index list of the servers from i on
RECURSIVE WeightedFrom(_, _)
WeightedFrom(servers, i) ==
  IF i > Len(servers) THEN << >>
  ELSE RepeatIndex(i, servers[i].weight) \o WeightedFrom(servers, i + 1)

\* UpstreamSelector::from_config: weighted_indices
WeightedIndices(servers) ==
  IF WeightedFrom(servers, 1) = << >> /\ servers # << >>
    THEN [i \in 1 .. Len(servers) |-> i]
    ELSE WeightedFrom(servers, 1)

\* fetch_add(1) on the usize counter
WrappingAdd1(counter) == (counter + 1) % (2 ^ UsizeBits)

UsNoCall == [pc |-> "idle", route |-> "", val |-> 0, res |-> "none"]

UsFrame ==
  UNCHANGED <<trieVars, repVars, clock, tbVars, swVars, ckVars, botVars, scVars, plVars,
              rwVars, lmVars, ldVars, rtVars>>

\* upstream_peer finds no upstream of the route's name, or select finds
\* weighted_indices empty: the request fails with ConnectProxyFailure.
UsPeerFails(t, route) ==
  /\ usThr[t].pc = "idle"
  /\ route # usCfg.name \/ usWeighted = << >>
  /\ usThr' = [usThr EXCEPT ![t] = [pc |-> "idle", route |-> route, val |-> 0,
                                    res |-> "ConnectProxyFailure"]]
  /\ UNCHANGED <<usCfg, usWeighted, usCounter, usDone>> /\ UsFrame

\* select: the counter is fetched and incremented in one atomic step.
UsFetchAdd(t, route) ==
  /\ usThr[t].pc = "idle"
  /\ route = usCfg.name /\ usWeighted # << >>
  /\ usCounter' = WrappingAdd1(usCounter)
  /\ usThr' = [usThr EXCEPT ![t] = [pc |-> "fetched", route |-> route, val |-> usCounter,
                                    res |-> "none"]]
  /\ UNCHANGED <<usCfg, usWeighted, usDone>> /\ UsFrame

\* select: the server at the fetched value modulo the list's length is
\* returned, and upstream_peer makes the peer of its address.
UsReturn(t) ==
  /\ usThr[t].pc = "fetched"
  /\ usThr' = [usThr EXCEPT ![t].pc = "idle",
                            ![t].res = usCfg.servers[usWeighted[(usThr[t].val
                                                       % Len(usWeighted)) + 1]].addr]
  /\ usDone' = usDone \cup
                 { [val |-> usThr[t].val,
                    server |-> usWeighted[(usThr[t].val % Len(usWeighted)) + 1]] }
  /\ UNCHANGED <<usCfg, usWeighted, usCounter>> /\ UsFrame

UsNext ==
  \/ \E t \in Threads, route \in UsRouteUpstreams : UsPeerFails(t, route)
  \/ \E t \in Threads, route \in UsRouteUpstreams : UsFetchAdd(t, route)
  \/ \E t \in Threads : UsReturn(t)

\* UpstreamSelector::from_config(config)
UsNew(cfgs) ==
  /\ usCfg \in cfgs
  /\ usWeighted = WeightedIndices(usCfg.servers)
  /\ usCounter = 0
  /\ usThr = [t \in Threads |-> UsNoCall]
  /\ usDone = {}

-----------------------------------------------------------------------------
(* Layer7WafProxy::request_filter: crates/proxy/src/service.rs             *)

\* The connections of the runs: the peer's socket address as
\* client_addr().to_string() gives it, and the X-Forwarded-For header if any.
PlConns ==
  { [xff |-> "", peer |-> "10.0.0.7:5050"],
    [xff |-> "", peer |-> "10.0.0.8:5050"],
    [xff |-> "::1, 10.0.0.8", peer |-> "10.0.0.8:5050"],
    [xff |-> "", peer |-> "[::1]:4711"] }

\* "Remove port from IP if present": rsplit_once(':') on the address text
strip_port(text) ==
  LET parts == split(text, ":")
      last  == parts[Len(parts)]
  IN  IF Len(parts) < 2 THEN text
      ELSE IF starts_with(text, "[") \/ ~ str_contains(text, ".") THEN text
      ELSE SubSeq(text, 1, Len(text) - Len(last) - 1)

\* ctx.client_ip: the first X-Forwarded-For entry, trimmed, or the peer
\* address, with the port removed
client_ip_of(conn) ==
  strip_port(IF conn.xff # "" THEN trim(split(conn.xff, ",")[1]) ELSE conn.peer)

\* ctx.client_ip of every connection of the runs
ClientIpOf == [conn \in PlConns |-> client_ip_of(conn)]

\* ctx.client_ip.parse::<IpAddr>() on the client texts of the runs: the
\* bracketed socket form is no IP address.
ParseIpAddr ==
  [text \in BotClientIps |->
     CASE text = "10.0.0.7" -> [ok |-> TRUE, addr |-> [fam |-> "v4", val |-> 0]]
       [] text = "10.0.0.8" -> [ok |-> TRUE, addr |-> [fam |-> "v4", val |-> 1]]
       [] text = "::1"      -> [ok |-> TRUE, addr |-> [fam |-> "v6", val |-> 1]]
       [] OTHER             -> [ok |-> FALSE, addr |-> [fam |-> "none", val |-> 0]]]

\* The lists new() loads: 10.0.0.7 is blocklisted, 10.0.0.8 allowlisted.
PlBlockNets == {[fam |-> "v4", val |-> 0, plen |-> V4Bits]}
PlAllowNets == {[fam |-> "v4", val |-> 1, plen |-> V4Bits]}

\* TrieInsert over a set of networks
RECURSIVE TrieOf(_)
TrieOf(nets) ==
  IF nets = {} THEN IpTrieNew
  ELSE LET n == CHOOSE x \in nets : TRUE
       IN  TrieInsert(TrieOf(nets \ {n}), n)

\* IpReputation::check with no reload in flight
RepCheck(addr) ==
  IF TrieContains(allowlist, addr) THEN "Allow"
  ELSE IF TrieContains(blocklist, addr) THEN "Block"
  ELSE "None"

\* TokenBucketLimiter::check(key) at one instant: the result and the map
TbCheck(map, key, now) ==
  LET state   == IF key \in DOMAIN map THEN map[key] ELSE TbNewState(now)
      elapsed == DurationSince(now, state.last_refill)
      filled  == TbRefill(state.tokens, elapsed)
      ok      == TbHasToken(filled)
      after   == [tokens |-> IF ok THEN filled - OneToken ELSE filled,
                  last_refill |-> now]
  IN  [ok  |-> ok,
       map |-> [x \in DOMAIN map \cup {key} |-> IF x = key THEN after ELSE map[x]]]

\* The route's WAF: "Off" when the route has none, it is disabled or its mode
\* is Off, or no engine was built
WafModes == {"Off", "Detect", "Block"}

\* WafAction of process_request_headers
WafActions == {"Pass", "Block", "Redirect"}

\* What the engine's calls return: the status of the intervention (none when
\* not positive) and its redirect URL, if it has one
WafRcs == {0, 99, 403}
NoUrl == [some |-> FALSE, v |-> ""]
WafUrls == {NoUrl, [some |-> TRUE, v |-> "/blocked"]}

\* rc as u16
AsU16(rc) == rc % 65536

\* WafTransaction::interpret_status(rc), url being coraza_intervention_url
interpret_status(rc, url) ==
  IF rc <= 0 THEN [kind |-> "Pass", status |-> 0, url |-> ""]
  ELSE IF url.some THEN [kind |-> "Redirect", status |-> AsU16(rc), url |-> url.v]
  ELSE [kind |-> "Block", status |-> AsU16(rc), url |-> ""]

\* StatusCode::from_u16(status).unwrap_or(default)
FORBIDDEN == 403
FOUND == 302
StatusOr(status, default) == IF 100 <= status /\ status < 1000 THEN status ELSE default

\* What the engine can answer a phase of a transaction with
WafAnswers == { interpret_status(rc, url) : rc \in WafRcs, url \in WafUrls }

\* coraza_new_transaction returning 0, or a transaction, which then answers
WafCalls ==
  { [created |-> FALSE, action |-> interpret_status(0, NoUrl)] }
    \cup [created : {TRUE}, action : WafAnswers]

\* Those of the runs of all the stages: no intervention, or one with status 403
PlWafCalls == { c \in WafCalls : c.action.status \in {0, FORBIDDEN} }

\* The upstream's answers
UpstreamStatuses == {200, 500}

\* No answer of the engine: the WAF stage did not run
NoWafAction == [kind |-> "none", status |-> 0, url |-> ""]

\* ctx before response_filter has run
NoResponseSeen == [pc |-> "none", upstream_status |-> 0, response_status |-> 0,
                   delivered |-> 0, overridden |-> FALSE,
                   nosniff |-> FALSE, frame_deny |-> FALSE,
                   hook |-> "none", hook_tx |-> 0]

\* The proxies new() builds
PlConfigs == [rate_limit : BOOLEAN, waf : WafModes]

\* The requests' User-Agent headers and paths
PlUserAgents == {"curl/8", "Mozilla/5.0 Chrome/120"}
PlPaths == {"/page", TrapPathPrefix \o "/0a1b2c3d4e5f"}

\* The detectors of the pipeline runs
PlBotConfigs ==
  { c \in BotConfigs :
      /\ c.score_threshold = 700 /\ c.known_bots_allowlist = << >>
      /\ c.mode # "Detect" \/ ~ c.enabled
      /\ c.js_challenge.enabled = (c.mode = "Challenge") }

\* RequestContext and the state request_filter works on, as the call begins
PlCtx(client_ip, path) ==
  [client_ip |-> client_ip, path |-> path, returned |-> FALSE, outcome |-> "forward",
   block_reason |-> "none", parsed |-> FALSE, ip_action |-> "none", stages |-> << >>,
   buckets |-> buckets, sessions |-> sessions, bot |-> botRes, page |-> ckPage,
   waf_tx |-> "none", tx_id |-> 0, created |-> "none", waf |-> NoWafAction, status |-> 0,
   location |-> "", resp |-> NoResponseSeen]

NoPlResult == [PlCtx("", "") EXCEPT !.buckets = << >>, !.sessions = << >>,
                                    !.bot = NoBotResult, !.page = NoPage] @@ [n |-> 0]

\* 1. IP reputation check, with Allow falling through to the later stages
PlIpCheckAllowContinues(ctx) ==
  IF ~ ParseIpAddr[ctx.client_ip].ok THEN ctx
  ELSE [ctx EXCEPT !.parsed = TRUE,
                   !.stages = Append(@, "IPCheck"),
                   !.ip_action = RepCheck(ParseIpAddr[ctx.client_ip].addr),
                   !.returned = RepCheck(ParseIpAddr[ctx.client_ip].addr) = "Block",
                   !.outcome = IF RepCheck(ParseIpAddr[ctx.client_ip].addr) = "Block"
                                 THEN "403" ELSE @,
                   !.block_reason = IF RepCheck(ParseIpAddr[ctx.client_ip].addr) = "Block"
                                      THEN "IpBlocked" ELSE @]

\* 1. IP reputation check
PlIpCheck(ctx) ==
  IF ~ ParseIpAddr[ctx.client_ip].ok THEN ctx
  ELSE [ctx EXCEPT !.parsed = TRUE,
                   !.stages = Append(@, "IPCheck"),
                   !.ip_action = RepCheck(ParseIpAddr[ctx.client_ip].addr),
                   !.returned = RepCheck(ParseIpAddr[ctx.client_ip].addr) \in {"Block", "Allow"},
                   !.outcome = IF RepCheck(ParseIpAddr[ctx.client_ip].addr) = "Block"
                                 THEN "403" ELSE @,
                   !.block_reason = IF RepCheck(ParseIpAddr[ctx.client_ip].addr) = "Block"
                                      THEN "IpBlocked" ELSE @]

\* 2. Rate limiting, with the later stages running after a denial
PlRateLimitNoReturn(ctx) ==
  IF ctx.returned \/ ~ plCfg.rate_limit THEN ctx
  ELSE [ctx EXCEPT !.stages = Append(@, "RateCheck"),
                   !.buckets = TbCheck(ctx.buckets, ctx.client_ip, clock).map,
                   !.outcome = IF TbCheck(ctx.buckets, ctx.client_ip, clock).ok
                                 THEN @ ELSE "429",
                   !.block_reason = IF TbCheck(ctx.buckets, ctx.client_ip, clock).ok
                                      THEN @ ELSE "RateLimit"]

\* 2. Rate limiting
PlRateLimit(ctx) ==
  IF ctx.returned \/ ~ plCfg.rate_limit THEN ctx
  ELSE [ctx EXCEPT !.stages = Append(@, "RateCheck"),
                   !.buckets = TbCheck(ctx.buckets, ctx.client_ip, clock).map,
                   !.returned = ~ TbCheck(ctx.buckets, ctx.client_ip, clock).ok,
                   !.outcome = IF TbCheck(ctx.buckets, ctx.client_ip, clock).ok
                                 THEN @ ELSE "429",
                   !.block_reason = IF TbCheck(ctx.buckets, ctx.client_ip, clock).ok
                                      THEN @ ELSE "RateLimit"]

\* 2.5 Bot detection, d being what detector.check computed
PlBotResult(d, ctx) ==
  [ctx EXCEPT
     !.stages = Append(@, "BotCheck"),
     !.sessions = [x \in DOMAIN ctx.sessions \cup {ctx.client_ip} |->
                     IF x = ctx.client_ip
                       THEN [last_seen |-> clock, fingerprint_hash |-> d.hash]
                       ELSE ctx.sessions[x]],
     !.bot = [pc |-> "done", ua |-> d.ua, res |-> d.result,
              score |-> IF d.result = "Detect" THEN d.score ELSE -1,
              pattern |-> d.pattern, valid |-> d.valid,
              bot_score |-> d.score, ip |-> ctx.client_ip],
     !.page = IF d.result = "Challenge"
                THEN generate_challenge(ctx.client_ip, botCfg.js_challenge.secret, unixNow)
                ELSE @,
     !.returned = d.result \in {"Block", "Challenge"},
     !.outcome = IF d.result = "Block" THEN "403"
                 ELSE IF d.result = "Challenge" THEN "challenge" ELSE @,
     !.block_reason = IF d.result = "Block" THEN "BotDetected" ELSE @]

\* 2.5 Bot detection
PlBotCheck(headers, cookie_header, ctx) ==
  IF ctx.returned \/ ~ botCfg.enabled THEN ctx
  ELSE PlBotResult(BotDecide(botCfg, ctx.client_ip, headers, cookie_header, unixNow), ctx)

\* 3. WAF check (request headers phase), answering locally in Detect mode too
PlWafDetectAnswers(created, action, ctx) ==
  IF ctx.returned \/ plCfg.waf = "Off" THEN ctx
  ELSE IF ~ created
    THEN [ctx EXCEPT !.stages = Append(@, "WAF"), !.created = "failed",
                     !.returned = TRUE, !.outcome = "panic"]
  ELSE IF action.kind = "Block"
    THEN [ctx EXCEPT !.stages = Append(@, "WAF"), !.created = "ok", !.waf = action,
                     !.tx_id = plRes.n + 1, !.waf_tx = "dropped",
                     !.returned = TRUE, !.outcome = "waf-block",
                     !.status = StatusOr(action.status, FORBIDDEN),
                     !.block_reason = "Waf"]
  ELSE IF action.kind = "Redirect"
    THEN [ctx EXCEPT !.stages = Append(@, "WAF"), !.created = "ok", !.waf = action,
                     !.tx_id = plRes.n + 1, !.waf_tx = "dropped",
                     !.returned = TRUE, !.outcome = "waf-redirect",
                     !.status = StatusOr(action.status, FOUND),
                     !.location = action.url]
  ELSE [ctx EXCEPT !.stages = Append(@, "WAF"), !.created = "ok", !.waf = action,
                   !.tx_id = plRes.n + 1, !.waf_tx = "kept"]

\* 3. WAF check (request headers phase): created tells whether
\* coraza_new_transaction returned a transaction, action is what
\* process_request_headers returned
PlWaf(created, action, ctx) ==
  IF ctx.returned \/ plCfg.waf = "Off" THEN ctx
  ELSE IF ~ created
    THEN [ctx EXCEPT !.stages = Append(@, "WAF"), !.created = "failed",
                     !.returned = TRUE, !.outcome = "panic"]
  ELSE IF action.kind = "Block" /\ plCfg.waf = "Block"
    THEN [ctx EXCEPT !.stages = Append(@, "WAF"), !.created = "ok", !.waf = action,
                     !.tx_id = plRes.n + 1, !.waf_tx = "dropped",
                     !.returned = TRUE, !.outcome = "waf-block",
                     !.status = StatusOr(action.status, FORBIDDEN),
                     !.block_reason = "Waf"]
  ELSE IF action.kind = "Redirect" /\ plCfg.waf = "Block"
    THEN [ctx EXCEPT !.stages = Append(@, "WAF"), !.created = "ok", !.waf = action,
                     !.tx_id = plRes.n + 1, !.waf_tx = "dropped",
                     !.returned = TRUE, !.outcome = "waf-redirect",
                     !.status = StatusOr(action.status, FOUND),
                     !.location = action.url]
  ELSE [ctx EXCEPT !.stages = Append(@, "WAF"), !.created = "ok", !.waf = action,
                   !.tx_id = plRes.n + 1, !.waf_tx = "kept"]

\* Layer7WafProxy::response_filter(session, upstream_response, ctx): action
\* is what process_response_headers returns for the context's transaction
response_filter(upstream_status, action, ctx) ==
  [ctx EXCEPT
     !.block_reason = IF ctx.waf_tx = "kept" /\ action.kind = "Block" THEN "Waf" ELSE @,
     !.resp = [pc |-> "done", upstream_status |-> upstream_status,
               response_status |-> upstream_status,
               delivered |-> upstream_status, overridden |-> FALSE,
               nosniff |-> TRUE, frame_deny |-> TRUE,
               hook |-> IF ctx.waf_tx = "kept" THEN action.kind ELSE "none",
               hook_tx |-> IF ctx.waf_tx = "kept" THEN ctx.tx_id ELSE 0]]

\* request_filter's effects, ctx being the context as it returns
PlReturn(ctx) ==
  /\ buckets' = ctx.buckets
  /\ sessions' = ctx.sessions
  /\ botRes' = ctx.bot
  /\ ckPage' = ctx.page
  /\ plRes' = ctx @@ [n |-> plRes.n + 1]
  /\ UNCHANGED clock /\ PlFrame

\* Layer7WafProxy::request_filter(session, ctx)
request_filter(headers, cookie_header, path, created, action) ==
  PlReturn(PlWaf(created, action,
             PlBotCheck(headers, cookie_header,
               PlRateLimit(PlIpCheck(PlCtx(ClientIpOf[plConn], path))))))

\* A request arrives on the connection.
PlRequest ==
  \E ua \in PlUserAgents, path \in PlPaths, waf \in PlWafCalls :
    \E cookie_header \in { c \in CookieHeaders : c.v # "sid=1" } :
      /\ plRes.n < MaxRequests
      /\ request_filter(<<[k |-> "User-Agent", v |-> ua]>>, cookie_header, path,
                        waf.created, waf.action)

\* A browser's request arrives on the connection, for the WAF to answer.
WafRequest ==
  \E path \in PlPaths, waf \in WafCalls :
    /\ plRes.n < MaxRequests
    /\ request_filter(<<[k |-> "User-Agent", v |-> "Mozilla/5.0 Chrome/120"]>>,
                      [some |-> FALSE, v |-> ""], path, waf.created, waf.action)

\* The upstream's response header arrives for the request that was forwarded.
PlResponse ==
  \E upstream_status \in UpstreamStatuses, action \in WafAnswers :
    /\ plRes.n > 0 /\ plRes.outcome = "forward" /\ plRes.resp.pc = "none"
    /\ plRes' = response_filter(upstream_status, action, plRes)
    /\ UNCHANGED <<buckets, sessions, botRes, ckPage, clock>> /\ PlFrame

\* The monotonic clock advances.
PlTick ==
  /\ clock < MaxTicks
  /\ clock' = clock + 1
  /\ UNCHANGED <<buckets, sessions, botRes, ckPage, plRes>> /\ PlFrame

PlNext ==
  \/ PlRequest
  \/ PlTick

WafNext ==
  \/ WafRequest
  \/ PlResponse

\* The proxy at run time with its background thread: requests arrive, time
\* passes, and the rate-limit-cleanup thread new() started runs cleanup on
\* the rate limiter. Nothing in the proxy calls BotDetector::cleanup_sessions
\* or AntiScraper::cleanup_sessions.
SweepNext ==
  \/ PlRequest
  \/ TbIdlePeriod
  \/ TbCleanupNow
  \/ TbCleanupRetain

\* Layer7WafProxy::new(config)
PlNew(cfgs, conns) ==
  /\ plCfg \in cfgs
  /\ plConn \in conns
  /\ plRes = NoPlResult

-----------------------------------------------------------------------------
(* Route matching: find_route, the WAF stage's gate on ctx.route_index and *)
(* upstream_peer: crates/proxy/src/service.rs                              *)

\* The Host header of the requests, if any, and their paths
RtNoHost == [some |-> FALSE, v |-> ""]
RtReqHosts == {RtNoHost, [some |-> TRUE, v |-> "a.example"], [some |-> TRUE, v |-> "b.example"]}
RtPaths == {"/page", "/api/v1"}

\* RouteConfig: host, path_prefix, upstream and waf { enabled, mode }
RtRouteHosts == {RtNoHost, [some |-> TRUE, v |-> "a.example"]}
RtPrefixes == {"/", "/api"}
RtWafConfigs == [enabled : {TRUE}, mode : WafModes] \cup {[enabled |-> FALSE, mode |-> "Block"]}
RouteConfigs ==
  [host : RtRouteHosts, path_prefix : RtPrefixes, upstream : UsRouteUpstreams,
   waf : RtWafConfigs]
RtRouteLists == UNION { [1 .. n -> RouteConfigs] : n \in 0 .. MaxRoutes }

\* AppConfig::validate: every route's upstream is one of the upstreams (each
\* of which has a server)
validate(config) ==
  \A i \in 1 .. Len(config.routes) : config.routes[i].upstream \in config.upstreams

\* The configurations validate accepts, with and without WAF rules (waf_engine
\* is Some when there are rules)
RtConfigs ==
  { c \in [routes : RtRouteLists, upstreams : SUBSET UsRouteUpstreams, engine : BOOLEAN] :
      validate(c) }

\* find_route's host_match
host_match(route, host) ==
  IF route.host.some THEN host.some /\ host.v = route.host.v ELSE TRUE

\* find_route(host, path): the index of the first route that matches, counted
\* from 1, and 0 for None
find_route(routes, host, path) ==
  LET matching == { i \in 1 .. Len(routes) :
                      host_match(routes[i], host)
                        /\ starts_with(path, routes[i].path_prefix) }
  IN  IF matching = {} THEN 0
      ELSE CHOOSE i \in matching : \A j \in matching : i <= j

\* ctx before request_filter has run
RtNoResult == [pc |-> "idle", n |-> 0, route_index |-> 0, ip_action |-> "None",
               waf |-> "none", outcome |-> "none", upstream |-> ""]

\* request_filter with rate limiting and the detectors off: route matching,
\* 1. IP reputation check, 3. WAF check on the matched route's waf config
RtFilter(client_ip, host, path, created, action) ==
  LET route_index == find_route(rtCfg.routes, host, path)
      ip_action == IF ParseIpAddr[client_ip].ok
                     THEN RepCheck(ParseIpAddr[client_ip].addr) ELSE "None"
      ctx == [RtNoResult EXCEPT !.n = rtRes.n + 1, !.route_index = route_index,
                                !.ip_action = ip_action]
  IN  IF ip_action = "Block" THEN [ctx EXCEPT !.pc = "answered", !.outcome = "403"]
      ELSE IF ip_action = "Allow" THEN [ctx EXCEPT !.pc = "filtered"]
      ELSE IF route_index = 0 THEN [ctx EXCEPT !.pc = "filtered"]
      ELSE IF ~ rtCfg.routes[route_index].waf.enabled
                \/ rtCfg.routes[route_index].waf.mode = "Off"
                \/ ~ rtCfg.engine
        THEN [ctx EXCEPT !.pc = "filtered"]
      ELSE IF ~ created THEN [ctx EXCEPT !.pc = "answered", !.outcome = "panic"]
      ELSE IF action.kind = "Block" /\ rtCfg.routes[route_index].waf.mode = "Block"
        THEN [ctx EXCEPT !.pc = "answered", !.waf = "Block", !.outcome = "waf-block"]
      ELSE IF action.kind = "Redirect" /\ rtCfg.routes[route_index].waf.mode = "Block"
        THEN [ctx EXCEPT !.pc = "answered", !.waf = "Redirect",
                         !.outcome = "waf-redirect"]
      ELSE [ctx EXCEPT !.pc = "filtered", !.waf = action.kind]

\* upstream_peer's upstream_name: the matched route's upstream, else the first
\* route's, else "backend"
upstream_name(routes, route_index) ==
  IF route_index # 0 THEN routes[route_index].upstream
  ELSE IF routes # << >> THEN routes[1].upstream
  ELSE "backend"

RtFrame ==
  UNCHANGED <<trieVars, repVars, clock, tbVars, swVars, ckVars, botVars, scVars, plVars,
              rwVars, usVars, lmVars, ldVars>>

\* A request arrives and request_filter runs on it. Nothing of a request
\* stays behind for the next one: each run follows one request.
RtRequest ==
  \E conn \in PlConns, host \in RtReqHosts, path \in RtPaths, waf \in PlWafCalls :
    /\ rtRes.pc = "idle"
    /\ rtRes' = RtFilter(ClientIpOf[conn], host, path, waf.created, waf.action)
    /\ UNCHANGED rtCfg /\ RtFrame

\* request_filter returned Ok(false): upstream_peer picks the upstream, and
\* the request is sent to it, or fails with ConnectProxyFailure when
\* find_upstream finds none of that name.
RtUpstreamPeer ==
  /\ rtRes.pc = "filtered"
  /\ rtRes' = IF upstream_name(rtCfg.routes, rtRes.route_index) \in rtCfg.upstreams
                THEN [rtRes EXCEPT !.pc = "forwarded", !.outcome = "forward",
                        !.upstream = upstream_name(rtCfg.routes, rtRes.route_index)]
                ELSE [rtRes EXCEPT !.pc = "failed", !.outcome = "ConnectProxyFailure"]
  /\ UNCHANGED rtCfg /\ RtFrame

RtNext ==
  \/ RtRequest
  \/ RtUpstreamPeer

\* Layer7WafProxy::new(config)
RtNew(cfgs) ==
  /\ rtCfg \in cfgs
  /\ rtRes = RtNoResult

RtAside == RtNew({[routes |-> << >>, upstreams |-> {"backend"}, engine |-> FALSE]})

-----------------------------------------------------------------------------
\* Each specification runs one component from every construction of it
\* within the bounds; the other components stay as one construction left them.
TbInit  == TbNew([rps : 0 .. MaxRps, burst : 0 .. MaxBurst])
TbAside == TbNew({[rps |-> 1, burst |-> 1]})
SwInit  == SwNew([rps : 0 .. MaxRps, window_secs : 1 .. MaxWindowSecs])
SwAside == SwNew({[rps |-> 1, window_secs |-> 1]})
CkInit  == CkNew(CookieConfigs)
CkAside == CkNew({[secret |-> "alpha", ttl_secs |-> 1]})
ScInit  == ScNew(ScConfigs, {NoSession, CrawlerSession})
ScAside == ScNew({[enabled |-> FALSE, mode |-> "Detect",
                   captcha |-> [enabled |-> TRUE, ttl_secs |-> 1, secret |-> "alpha"],
                   honeypot |-> [enabled |-> TRUE, trap_path_prefix |-> TrapPathPrefix],
                   obfuscation |-> [enabled |-> TRUE],
                   score_threshold |-> 600]}, {NoSession})
BotInit  == BotNew(BotConfigs)
UsAside == UsNew({[name |-> "backend", servers |-> << >>]})
PlAside == PlNew({[rate_limit |-> FALSE, waf |-> "Off"]},
                 {[xff |-> "", peer |-> "10.0.0.7:5050"]})
BotAside == BotNew({[enabled |-> FALSE, mode |-> "Detect", score_threshold |-> 700,
                     known_bots_allowlist |-> << >>,
                     js_challenge |-> [enabled |-> FALSE, secret |-> "alpha",
                                       ttl_secs |-> 1]]})

InitTrie == TrieInit /\ RepInit /\ clock = 0 /\ TbAside /\ SwAside /\ CkAside /\ BotAside /\ ScAside /\ PlAside /\ RwInit /\ UsAside /\ LmAside /\ LdAside /\ RtAside
InitRep  == TrieInit /\ RepInit /\ clock = 0 /\ TbAside /\ SwAside /\ CkAside /\ BotAside /\ ScAside /\ PlAside /\ RwInit /\ UsAside /\ LmAside /\ LdAside /\ RtAside
InitTB   == TrieInit /\ RepInit /\ clock = 0 /\ TbInit /\ SwAside /\ CkAside /\ BotAside /\ ScAside /\ PlAside /\ RwInit /\ UsAside /\ LmAside /\ LdAside /\ RtAside
InitSW   == TrieInit /\ RepInit /\ clock = 0 /\ TbAside /\ SwInit /\ CkAside /\ BotAside /\ ScAside /\ PlAside /\ RwInit /\ UsAside /\ LmAside /\ LdAside /\ RtAside
InitCookie == TrieInit /\ RepInit /\ clock = 0 /\ TbAside /\ SwAside /\ CkInit /\ BotAside /\ ScAside /\ PlAside /\ RwInit /\ UsAside /\ LmAside /\ LdAside /\ RtAside
InitBot  == TrieInit /\ RepInit /\ clock = 0 /\ TbAside /\ SwAside /\ CkAside /\ BotInit /\ ScAside /\ PlAside /\ RwInit /\ UsAside /\ LmAside /\ LdAside /\ RtAside

InitScrape == TrieInit /\ RepInit /\ clock = 0 /\ TbAside /\ SwAside /\ CkAside /\ BotAside /\ ScInit /\ PlAside /\ RwInit /\ UsAside /\ LmAside /\ LdAside /\ RtAside

\* The pipeline runs: the lists loaded, anti-scraping and its honeypot
\* switched on in the configuration.
InitPipe ==
  /\ TrieInit
  /\ blockNets = PlBlockNets /\ blocklist = TrieOf(PlBlockNets)
  /\ allowNets = PlAllowNets /\ allowlist = TrieOf(PlAllowNets)
  /\ rl = RlIdle /\ chk = ChkIdle
  /\ clock = 0 /\ TbAside /\ SwAside /\ CkAside
  /\ BotNew(PlBotConfigs)
  /\ ScNew({ c \in ScConfigs : c.enabled /\ c.honeypot.enabled /\ c.captcha.enabled
                                /\ c.mode = "Block" /\ c.score_threshold = 600 },
           {NoSession})
  /\ PlNew(PlConfigs, PlConns)
  /\ RwInit /\ UsAside /\ LmAside /\ LdAside /\ RtAside

\* The WAF runs: the lists loaded, the detectors off, every WAF mode
InitWaf ==
  /\ TrieInit
  /\ blockNets = PlBlockNets /\ blocklist = TrieOf(PlBlockNets)
  /\ allowNets = PlAllowNets /\ allowlist = TrieOf(PlAllowNets)
  /\ rl = RlIdle /\ chk = ChkIdle
  /\ clock = 0 /\ TbAside /\ SwAside /\ CkAside /\ BotAside /\ ScAside
  /\ PlNew(PlConfigs, PlConns)
  /\ RwInit /\ UsAside /\ LmAside /\ LdAside /\ RtAside

\* The proxy with rate limiting and bot detection enabled
InitSweep == InitPipe /\ plCfg.rate_limit /\ botCfg.enabled

InitRewrite ==
  /\ TrieInit /\ RepInit /\ clock = 0 /\ TbAside /\ SwAside /\ CkAside /\ BotAside
  /\ ScNew(RwConfigs, {NoSession}) /\ PlAside /\ RwInit /\ UsAside /\ LmAside /\ LdAside /\ RtAside

\* Either kind of limiter behind the facade, with every rate within the bounds
InitLimiter ==
  /\ TrieInit /\ RepInit /\ clock = 0
  /\ \/ TbNew([rps : 0 .. MaxRps, burst : 1 .. MaxBurst]) /\ SwAside /\ LmNew({"TokenBucket"})
     \/ TbAside /\ SwNew([rps : 1 .. MaxRps, window_secs : {1}]) /\ LmNew({"SlidingWindow"})
  /\ CkAside /\ BotAside /\ ScAside /\ PlAside /\ RwInit /\ UsAside /\ LdAside /\ RtAside

InitSwRace ==
  /\ TrieInit /\ RepInit /\ clock = 0 /\ TbAside
  /\ SwRaceNew([rps : {1}, window_secs : {1}])
  /\ CkAside /\ BotAside /\ ScAside /\ PlAside /\ RwInit /\ UsAside /\ LmAside /\ LdAside /\ RtAside

\* Every window_secs new() accepts, within the bounds
InitSwLoop ==
  /\ TrieInit /\ RepInit /\ clock = 0 /\ TbAside
  /\ SwNew([rps : 1 .. MaxRps, window_secs : 0 .. MaxWindowSecs])
  /\ CkAside /\ BotAside /\ ScAside /\ PlAside /\ RwInit /\ UsAside /\ LmAside /\ LdAside /\ RtAside

InitSession ==
  /\ TrieInit /\ RepInit /\ clock = 0 /\ TbAside /\ SwAside /\ CkAside /\ BotAside
  /\ ScNew({ c \in ScConfigs : c.enabled /\ c.mode = "Detect" /\ c.captcha.enabled
                                /\ c.honeypot.enabled /\ c.score_threshold = 600 },
           {NoSession, CrawlerSession})
  /\ PlAside /\ RwInit /\ UsAside /\ LmAside /\ LdAside /\ RtAside

InitUpstream ==
  /\ TrieInit /\ RepInit /\ clock = 0 /\ TbAside /\ SwAside /\ CkAside /\ BotAside
  /\ ScAside /\ PlAside /\ RwInit /\ UsNew(UsConfigs) /\ LmAside /\ LdAside /\ RtAside

TrieNext ==
  \/ \E n \in Nets : Insert(n)
  \/ \E a \in Addrs : Contains(a)

SpecTrie == InitTrie /\ [][TrieNext]_vars

SpecRep == InitRep /\ [][RepNext]_vars

SpecTB == InitTB /\ [][TbNext]_vars

SpecSW == InitSW /\ [][SwNext]_vars

SpecCookie == InitCookie /\ [][CkNext]_vars

SpecBot == InitBot /\ [][BotNext]_vars

SpecScrape == InitScrape /\ [][ScNext]_vars

SpecPipe == InitPipe /\ [][PlNext]_vars

SpecRewrite == InitRewrite /\ [][RwNext]_vars

SpecWaf == InitWaf /\ [][WafNext]_vars

SpecUpstream == InitUpstream /\ [][UsNext]_vars

\* The routes: the lists loaded, every configuration validate accepts
InitRoute ==
  /\ TrieInit
  /\ blockNets = PlBlockNets /\ blocklist = TrieOf(PlBlockNets)
  /\ allowNets = PlAllowNets /\ allowlist = TrieOf(PlAllowNets)
  /\ rl = RlIdle /\ chk = ChkIdle
  /\ clock = 0 /\ TbAside /\ SwAside /\ CkAside /\ BotAside /\ ScAside /\ PlAside
  /\ RwInit /\ UsAside /\ LmAside /\ LdAside /\ RtNew(RtConfigs)

SpecRoute == InitRoute /\ [][RtNext]_vars

SpecLimiter == InitLimiter /\ [][LmNext]_vars

SpecSession == InitSession /\ [][SessNext]_vars

SpecSwLoop == InitSwLoop /\ [][SwLoopNext]_vars

\* A thread that has called check keeps running: each statement of the
\* call is executed in the end.
SpecSwLoopLive ==
  /\ SpecSwLoop
  /\ \A t \in SwThreads :
       WF_vars(SwLockEntry(t)) /\ WF_vars(SwRotateStep(t)) /\ WF_vars(SwRotateDone(t))

SpecSwRace == InitSwRace /\ [][SwRaceNext]_vars

SpecLoad == InitRep /\ [][LdNext]_vars

SpecSweep == InitSweep /\ [][SweepNext]_vars

\* The cleanup thread loops for as long as the process runs (its sleep ends,
\* its cleanup call returns), and time passes.
SpecSweepLive ==
  /\ SpecSweep
  /\ WF_vars(TbCleanupNow) /\ WF_vars(TbCleanupRetain) /\ WF_vars(TbIdlePeriod)

-----------------------------------------------------------------------------
\* C4: after inserting any set of CIDR networks, contains(a) is true exactly
\* when a lies inside at least one inserted network of a's own family; an
\* IPv4 entry never matches an IPv6 address and vice versa.
C4_TrieExact ==
  /\ \A a \in Addrs : TrieContains(trie, a) <=> InAny(a, inserted)
  /\ (lookup # NoLookup /\ lookup.res) =>
       \E n \in inserted : n.fam = lookup.addr.fam /\ InNet(lookup.addr, n)

\* C4 witness: overlapping networks including a /0 of one family are
\* inserted, an address of the other family was looked up and missed.
C4_Witness ==
  /\ lookup # NoLookup
  /\ lookup.res = FALSE
  /\ \E n \in inserted : n.plen = 0 /\ n.fam # lookup.addr.fam
  /\ \E n \in inserted : n.plen > 0 /\ n.fam # lookup.addr.fam
  /\ \E b \in Addrs : b.fam = lookup.addr.fam /\ TrieContains(trie, b) = FALSE

C2_SnapshotConsistent ==
  (chk.pc = "done" /\ ~ chk.overlap) =>
     chk.res \in chk.okRes

\* C3: with no reload in progress during the call, check(a) returns Allow
\* iff a is in the allowlist, Block only when a is in the blocklist and not
\* in the allowlist, None otherwise; never Block for an address in both.
C3_AllowPrecedence ==
  (chk.pc = "done" /\ chk.quiet) =>
     /\ (chk.res = "Allow") <=> chk.in0.allow
     /\ (chk.res = "Block") => (chk.in0.block /\ ~ chk.in0.allow)
     /\ (chk.res = "None") <=> (~ chk.in0.block /\ ~ chk.in0.allow)

\* C3 witness: an address in both lists was checked, with no reload during
\* the call, and reported Allow.
C3_Witness ==
  /\ chk.pc = "done" /\ chk.quiet
  /\ chk.in0.allow /\ chk.in0.block
  /\ chk.res = "Allow"
\* C5: for a key checked for the first time, burst+1 consecutive check(key)
\* calls with no time elapsing between them admit exactly the first burst
\* calls and deny the last one (of the first n such calls, min(n, burst)
\* are admitted).
C5_BurstExact ==
  \A k \in Keys :
    tbHist[k].run.n >= 0 => tbHist[k].run.adm = Min(tbHist[k].run.n, tbCfg.burst)

\* C5 witness: burst+1 calls at one instant on a new key, burst admitted.
C5_Witness ==
  \E k \in Keys :
    /\ tbCfg.burst >= 2
    /\ tbHist[k].run.n = tbCfg.burst + 1
    /\ tbHist[k].run.adm = tbCfg.burst
    /\ tbHist[k].res = "deny"

\* C6: for every key, each write to last_refill stores a value greater than
\* or equal to the value it replaces.
C6_LastRefillMonotone ==
  [][\A k \in DOMAIN buckets :
        k \in DOMAIN buckets' => buckets'[k].last_refill >= buckets[k].last_refill]_vars

\* C7: after any sequence of check and cleanup calls, every stored bucket
\* has 0 <= tokens <= burst.
C7_TokensInRange ==
  \A k \in DOMAIN buckets :
    buckets[k].tokens >= 0 /\ buckets[k].tokens <= tbCfg.burst * OneToken

\* C7 witness: after the long idle period a bucket holds a fraction of a
\* token: it was drained, partly refilled by a check, and that check denied.
C7_Witness ==
  \E k \in DOMAIN buckets :
     /\ buckets[k].tokens > 0 /\ buckets[k].tokens < OneToken
     /\ buckets[k].last_refill > TbStaleTicks
     /\ tbHist[k].res = "deny"

\* C8: with rps >= 1 and burst >= 1, a key whose successive checks are
\* spaced at least 1/rps seconds apart is never denied, from its first
\* check on.
C8_SpacedNeverDenied ==
  (tbCfg.rps >= 1 /\ tbCfg.burst >= 1) =>
     \A k \in Keys : tbHist[k].sp # "denied"

\* C8 witness: a key with burst 1 was checked three times, each 1/rps
\* seconds after the previous one, and every check was admitted.
C8_Witness ==
  \E k \in DOMAIN buckets :
    /\ tbCfg.rps = 2 /\ tbCfg.burst = 1
    /\ tbHist[k].sp = "ok"
    /\ buckets[k].last_refill = 2
    /\ buckets[k].tokens = 0
\* A User-Agent matches a good-bot pattern when, case-insensitively, it
\* contains a built-in good-bot name or an entry of the custom allowlist.
MatchesGoodBot(ua, custom_allowlist) ==
  \/ \E i \in 1 .. Len(KNOWN_GOOD_BOTS) :
       str_contains(to_lowercase(ua), to_lowercase(KNOWN_GOOD_BOTS[i]))
  \/ \E i \in 1 .. Len(custom_allowlist) :
       str_contains(to_lowercase(ua), to_lowercase(custom_allowlist[i]))

\* C9: a request whose User-Agent matches a good-bot pattern (built-in list
\* or custom allowlist entry) is never answered Block or Challenge, in every
\* mode, for every threshold, whatever the other headers and cookies.
C9_GoodBotNeverBlocked ==
  (botRes.pc = "done" /\ MatchesGoodBot(botRes.ua, botCfg.known_bots_allowlist))
     => botRes.res \notin {"Block", "Challenge"}

\* C9 witness: a User-Agent naming bingbot next to curl is allowed in Block
\* mode, where curl alone scores above the threshold.
C9_Witness ==
  /\ botRes.pc = "done" /\ botRes.ua = "curl/8 (Bingbot)" /\ botRes.res = "Allow"
  /\ botCfg.enabled /\ botCfg.mode = "Block" /\ botCfg.score_threshold <= 900

\* C10: a cookie assembled as the issued page assembles it (bot challenge
\* ip:ts:pow_hash:hmac, CAPTCHA ip:ts:answer_hash:hmac:correct_answer) is
\* accepted by the matching verify function for the same ip and secret
\* while now - ts <= ttl_secs, for every client IP string.
C10_FreshCookieVerifies ==
  (ckVerdict.pc = "done" /\ ckVerdict.tamper = "none" /\ ckVerdict.right
     /\ ckVerdict.sameIp /\ ckVerdict.fresh)
     => ckVerdict.ok

\* C10 witness: the CAPTCHA cookie of a dotted IPv4 client, assembled with
\* the right answer and verified for the same ip one second later, is accepted.
C10_Witness ==
  /\ ckVerdict.pc = "done" /\ ckVerdict.kind = "captcha" /\ ckVerdict.ok
  /\ ckVerdict.ip = "10.0.0.7" /\ ckVerdict.right
  /\ unixNow = ckCookie.ts + 1

\* C11: a cookie that verified and then had one character of its ip, ts,
\* answer_hash, hmac or user_answer field changed never verifies again, for
\* any client ip and at any time; and a bot-challenge cookie value that does
\* not consist of exactly 4 colon-separated fields never verifies.
C11_TamperRejected ==
  /\ (ckVerdict.pc = "done"
        /\ ckVerdict.tamper \in {"ip", "ts", "answer_hash", "hmac", "user_answer"})
       => ~ckVerdict.ok
  /\ (ckVerdict.pc = "done" /\ ckVerdict.kind = "bc" /\ ckVerdict.fields # 4)
       => ~ckVerdict.ok

\* C11 witness: the hmac field of a bot-challenge cookie that had verified
\* got a colon for one of its characters, which makes five fields; the value
\* is presented by the same client within the TTL and is rejected.
C11_Witness ==
  /\ ckVerdict.pc = "done" /\ ckVerdict.kind = "bc" /\ ckVerdict.tamper = "hmac"
  /\ ckVerdict.fields = 5 /\ ckVerdict.sameIp /\ ckVerdict.fresh
  /\ ~ckVerdict.ok

\* The action the configured mode takes on a score at or above the threshold
\* when the request carries no valid CAPTCHA cookie.
ScModeAction ==
  CASE scCfg.mode = "Block" -> "Block"
    [] scCfg.mode = "Challenge" -> IF scCfg.captcha.enabled THEN "Challenge" ELSE "Block"
    [] OTHER -> "Detect"

\* C12 as stated: once a client has requested a trap path, every later
\* non-trap check_request of that client computes a score of at least 1.0
\* and gets the configured mode's action, whatever cookie and bot_score it
\* carries.
C12_TrapAlwaysTriggers ==
  (scRes.pc = "done" /\ scCfg.enabled /\ scCfg.honeypot.enabled
     /\ scRes.hitBefore /\ ~scRes.trap)
    => (scRes.score >= 1000 /\ scRes.res = ScModeAction)

\* C12 amended: a non-trap check_request of a client whose session holds
\* trap_triggered and has recorded no valid CAPTCHA cookie, in this request
\* or before, computes the score 1.0 and gets the configured mode's action.
C12_TrapTriggersUnlessSolved ==
  (scRes.pc = "done" /\ scCfg.enabled /\ scCfg.honeypot.enabled
     /\ scRes.trapBefore /\ ~scRes.solved /\ ~scRes.trap)
    => (scRes.score = 1000 /\ scRes.res = ScModeAction)

\* C12 witness: in Challenge mode a client that requested the trap link
\* asks for a page with no valid cookie and is sent the CAPTCHA page.
C12_Witness ==
  /\ scRes.pc = "done" /\ scRes.trapBefore /\ ~scRes.solved /\ ~scRes.trap
  /\ scCfg.mode = "Challenge" /\ scRes.res = "Challenge" /\ scRes.score = 1000

\* C17: in Challenge mode every request that presents a challenge cookie
\* valid for its own IP is allowed by check, neither challenged nor blocked,
\* whatever its User-Agent and other headers.
C17_ValidCookieAllowed ==
  (botRes.pc = "done" /\ botCfg.enabled /\ botCfg.mode = "Challenge" /\ botRes.valid)
    => botRes.res = "Allow"

\* C17 witness: a bad bot without an Accept header that holds a valid cookie
\* still scores at or above a threshold of 0.3 and is allowed.
C17_Witness ==
  /\ botRes.pc = "done" /\ botCfg.enabled /\ botCfg.mode = "Challenge" /\ botRes.valid
  /\ botRes.pattern = "KnownBadBot" /\ botRes.bot_score >= botCfg.score_threshold
  /\ botRes.res = "Allow"

\* The result the decision table of C18 names for a request that is no known
\* good bot
BotTable(mode, above, valid, js_enabled) ==
  IF above
    THEN IF mode = "Block" THEN "Block"
         ELSE IF mode = "Challenge"
           THEN (IF valid THEN "Allow" ELSE IF js_enabled THEN "Challenge" ELSE "Block")
         ELSE "Detect"
  ELSE IF mode = "Detect" THEN "Detect" ELSE "Allow"

\* C18: with detection enabled, for a request that is no known good bot,
\* check returns what the decision table names for the mode, the score
\* against the threshold, the cookie verdict and the js_challenge switch, and
\* a Detect result carries the score.
C18_DecisionTable ==
  (botRes.pc = "done" /\ botCfg.enabled /\ botRes.pattern # "KnownGoodBot")
    => /\ botRes.res = BotTable(botCfg.mode, botRes.bot_score >= botCfg.score_threshold,
                                botRes.valid, botCfg.js_challenge.enabled)
       /\ botRes.res = "Detect" => botRes.score = botRes.bot_score

\* C18 witness: in Challenge mode with the JS challenge switched off a
\* request at or above the threshold without a valid cookie is blocked.
C18_Witness ==
  /\ botRes.pc = "done" /\ botCfg.enabled /\ botCfg.mode = "Challenge"
  /\ ~ botCfg.js_challenge.enabled /\ ~ botRes.valid
  /\ botRes.pattern # "KnownGoodBot" /\ botRes.bot_score >= botCfg.score_threshold
  /\ botRes.res = "Block"

\* looks_like_browser, of classify_user_agent
LooksLikeBrowser(ua_lower) ==
  /\ str_contains(ua_lower, "mozilla")
  /\ \/ str_contains(ua_lower, "chrome")
     \/ str_contains(ua_lower, "firefox")
     \/ str_contains(ua_lower, "safari")
     \/ str_contains(ua_lower, "edge")

\* The rules of C20 applied strictly top to bottom
ClassifyTopToBottom(ua, custom_allowlist) ==
  IF MatchesGoodBot(ua, custom_allowlist) THEN "KnownGoodBot"
  ELSE IF ContainsAny(to_lowercase(ua), KNOWN_BAD_BOTS) THEN "KnownBadBot"
  ELSE IF \/ ua = ""
          \/ /\ ~ LooksLikeBrowser(to_lowercase(ua))
             /\ ContainsAny(to_lowercase(ua), SUSPICIOUS_PATTERNS)
    THEN "Suspicious"
  ELSE "LikelyHuman"

\* C20: classify_user_agent applies its rules strictly top to bottom for
\* every User-Agent and allowlist: a good-bot match (custom allowlist entry
\* or built-in name) first, then a bad-bot substring, then the empty or
\* suspicious non-browser User-Agent, then LikelyHuman.
C20_TopToBottom ==
  (botRes.pc = "done" /\ botCfg.enabled)
    => botRes.pattern = ClassifyTopToBottom(botRes.ua, botCfg.known_bots_allowlist)

\* C20 witness: a User-Agent naming bingbot next to curl is a known good bot
\* although it holds a bad-bot substring.
C20_Witness ==
  /\ botRes.pc = "done" /\ botCfg.enabled /\ botRes.ua = "curl/8 (Bingbot)"
  /\ botRes.pattern = "KnownGoodBot"
  /\ ContainsAny(to_lowercase(botRes.ua), KNOWN_BAD_BOTS)

\* The result the decision procedure of C19 names
ScTable(cfg, path, score, captcha_valid) ==
  IF ~ cfg.enabled THEN "Allow"
  ELSE IF cfg.honeypot.enabled /\ is_trap_request(path, cfg.honeypot.trap_path_prefix)
    THEN "TrapTriggered"
  ELSE IF score >= cfg.score_threshold
    THEN IF cfg.mode = "Block" THEN "Block"
         ELSE IF cfg.mode = "Challenge"
           THEN (IF captcha_valid THEN "Allow"
                 ELSE IF cfg.captcha.enabled THEN "Challenge" ELSE "Block")
         ELSE "Detect"
  ELSE IF cfg.mode = "Detect" THEN "Detect" ELSE "Allow"

\* C19: check_request returns what the decision procedure names: Allow when
\* disabled; TrapTriggered for a trap-prefixed path with the honeypot
\* enabled, in every mode and whatever cookie and score; otherwise the
\* mode's result for the score against the threshold and the CAPTCHA
\* cookie's verdict.
C19_DecisionProcedure ==
  scRes.pc = "done"
    => scRes.res =
         ScTable(scCfg, scRes.path, scRes.score,
                 scCfg.captcha.enabled /\ scRes.cookieOk)

\* C19 witness: a request for the trap link that carries a valid CAPTCHA
\* cookie is answered TrapTriggered in Challenge mode.
C19_Witness ==
  /\ scRes.pc = "done" /\ scCfg.enabled /\ scCfg.mode = "Challenge"
  /\ scCfg.honeypot.enabled /\ scCfg.captcha.enabled
  /\ is_trap_request(scRes.path, scCfg.honeypot.trap_path_prefix)
  /\ scRes.cookieOk /\ scRes.res = "TrapTriggered"

\* The request stages in their order
StageOrder == <<"IPCheck", "RateCheck", "BotCheck", "WAF">>

StageNo(stage) == CHOOSE i \in 1 .. Len(StageOrder) : StageOrder[i] = stage

\* C13: the stages of a request run in the order IPCheck, RateCheck,
\* BotCheck, WAF, and once a stage has answered locally no later stage runs:
\* a request of a blocklisted IP consumes no rate-limit token (and writes no
\* bot session, opens no WAF transaction), a rate-limited request writes no
\* bot session, gets no challenge page and opens no WAF transaction, and a
\* request the bot stage answered opens no WAF transaction.
C13_StagesShortCircuit ==
  [][ plRes'.n # plRes.n =>
        /\ \A i, j \in 1 .. Len(plRes'.stages) :
             i < j => StageNo(plRes'.stages[i]) < StageNo(plRes'.stages[j])
        /\ plRes'.ip_action = "Block" =>
             /\ plRes'.outcome = "403" /\ plRes'.stages = <<"IPCheck">>
             /\ buckets' = buckets /\ sessions' = sessions /\ ckPage' = ckPage
             /\ plRes'.waf_tx = "none"
        /\ plRes'.outcome = "429" =>
             /\ plRes'.stages[Len(plRes'.stages)] = "RateCheck"
             /\ sessions' = sessions /\ ckPage' = ckPage /\ botRes' = botRes
             /\ plRes'.waf_tx = "none"
        /\ plRes'.block_reason = "BotDetected" \/ plRes'.outcome = "challenge" =>
             /\ plRes'.stages[Len(plRes'.stages)] = "BotCheck"
             /\ plRes'.waf_tx = "none"
        /\ plRes'.outcome \in {"waf-block", "waf-redirect"} =>
             plRes'.stages[Len(plRes'.stages)] = "WAF" ]_vars

\* C13 witness: with the detector and the WAF switched on, a request is
\* answered 429 after the IP and rate stages, and the client's bot session
\* is still the one an earlier request wrote.
C13_Witness ==
  /\ plRes.n > 0 /\ plRes.outcome = "429" /\ plRes.stages = <<"IPCheck", "RateCheck">>
  /\ botCfg.enabled /\ plCfg.waf = "Block"
  /\ plRes.client_ip \in DOMAIN sessions
  /\ sessions[plRes.client_ip].last_seen < clock

\* C14: when reputation.check returns Allow the request is forwarded and no
\* later stage runs: no rate-limit bucket is read or written, no bot session
\* is written and no challenge issued, no WAF transaction is opened.
C14_AllowBypasses ==
  [][ (plRes'.n # plRes.n /\ plRes'.ip_action = "Allow") =>
        /\ plRes'.outcome = "forward" /\ plRes'.stages = <<"IPCheck">>
        /\ buckets' = buckets
        /\ sessions' = sessions /\ ckPage' = ckPage /\ botRes' = botRes
        /\ plRes'.waf_tx = "none" ]_vars

\* C14 witness: an allowlisted client is forwarded after the IP stage alone
\* by a proxy whose rate limiter, bot detector and WAF are all switched on.
C14_Witness ==
  /\ plRes.n > 0 /\ plRes.ip_action = "Allow" /\ plRes.outcome = "forward"
  /\ plRes.stages = <<"IPCheck">>
  /\ plCfg.rate_limit /\ botCfg.enabled /\ plCfg.waf = "Block"
  /\ plRes.client_ip \notin DOMAIN buckets
  /\ plRes.client_ip \notin DOMAIN sessions

\* C15: when the client address does not parse as an IP address the request
\* skips the IP-reputation stage and the rate-limit stage, no rate-limit
\* state being read or changed.
C15_UnparsedSkipsRate ==
  [][ (plRes'.n # plRes.n /\ ~ ParseIpAddr[plRes'.client_ip].ok) =>
        /\ \A i \in 1 .. Len(plRes'.stages) :
             plRes'.stages[i] \notin {"IPCheck", "RateCheck"}
        /\ buckets' = buckets ]_vars

\* C15 witness: a request whose client address does not parse skips the IP
\* stage and is passed on to bot detection and the WAF.
C15_Witness ==
  /\ plRes.n > 0 /\ ~ ParseIpAddr[plRes.client_ip].ok
  /\ Len(plRes.stages) >= 2 /\ plRes.stages[1] # "IPCheck"
  /\ plRes.stages[Len(plRes.stages) - 1] = "BotCheck"
  /\ plRes.stages[Len(plRes.stages)] = "WAF"

\* C16: with anti-scraping and the honeypot enabled, a request whose path
\* begins with the trap prefix is not forwarded to an upstream.
C16_TrapNeverForwarded ==
  (/\ plRes.n > 0 /\ scCfg.enabled /\ scCfg.honeypot.enabled
   /\ is_trap_request(plRes.path, scCfg.honeypot.trap_path_prefix))
    => plRes.outcome # "forward"

\* C16 witness: request_filter has handled a request for a trap path from a
\* client on neither list, anti-scraping and the honeypot being enabled.
C16_Witness ==
  /\ plRes.n > 0 /\ scCfg.enabled /\ scCfg.honeypot.enabled
  /\ is_trap_request(plRes.path, scCfg.honeypot.trap_path_prefix)
  /\ plRes.ip_action = "None"
  /\ \A ip \in ScIps : scSessions[ip] = NoSession

\* C21: process_response returns none whenever anti-scraping is disabled,
\* the content type is absent or does not contain text/html, or the body
\* is longer than MAX_BODY_BUFFER bytes; a page of exactly MAX_BODY_BUFFER
\* bytes with a closing body tag is still rewritten when the honeypot is on.
C21_UntouchedOrEligible ==
  scOut.pc = "done" =>
    /\ (\/ ~ scCfg.enabled
        \/ ~ scOut.content_type.some
        \/ ~ str_contains(scOut.content_type.v, "text/html")
        \/ ByteLen(scOut.body) > MAX_BODY_BUFFER) => ~ scOut.res.some
    /\ (/\ scCfg.enabled /\ scCfg.honeypot.enabled
        /\ scOut.content_type.some /\ str_contains(scOut.content_type.v, "text/html")
        /\ ByteLen(scOut.body) = MAX_BODY_BUFFER
        /\ str_find(scOut.body, "</body>") > 0 /\ IsUtf8(scOut.body))
         => (scOut.res.some /\ scOut.res.v # scOut.body)

\* C21 witness: a page of exactly MAX_BODY_BUFFER bytes has been rewritten.
C21_Witness ==
  /\ scOut.pc = "done" /\ ByteLen(scOut.body) = MAX_BODY_BUFFER
  /\ scOut.res.some /\ scOut.res.v # scOut.body

\* C22: whenever inject_zero_width_chars returned a modified body,
\* extract_watermark applied to that body returns the hex encoding of the
\* first four bytes of SHA-256 of the client ip.
C22_WatermarkRoundTrip ==
  wmk.pc = "extracted" =>
    wmk.got = [some |-> TRUE,
               v |-> HexByte(Sha256First4[wmk.ip][1]) \o HexByte(Sha256First4[wmk.ip][2])
                       \o HexByte(Sha256First4[wmk.ip][3]) \o HexByte(Sha256First4[wmk.ip][4])]

\* C22 witness: a body that already held a zero-width character has been
\* watermarked and the watermark has been read back.
C22_Witness ==
  /\ wmk.pc = "extracted"
  /\ \E i \in 1 .. Len(wmk.body) : CharAt(wmk.body, i) \in {ZWC_ZERO, ZWC_ONE}

\* C23: when the response-header hook of the request's transaction returns
\* Block, the response delivered to the client is an error response that
\* replaces the upstream's.
C23_BlockedResponseOverridden ==
  (plRes.resp.pc = "done" /\ plRes.resp.hook = "Block") =>
    /\ plRes.resp.overridden
    /\ plRes.resp.delivered >= 400

\* C23 witness: the hook returned Block for an upstream response with status
\* 200, and response_filter has returned.
C23_Witness ==
  /\ plRes.resp.pc = "done" /\ plRes.resp.hook = "Block"
  /\ plRes.resp.upstream_status = 200 /\ plRes.block_reason = "Waf"
  /\ plRes.resp.nosniff /\ plRes.resp.frame_deny

\* C24: when creating the WAF transaction fails the request is forwarded
\* to the upstream without WAF evaluation.
C24_CreationFailureFailsOpen ==
  (plRes.n > 0 /\ plRes.created = "failed") =>
    /\ plRes.outcome = "forward"
    /\ plRes.waf = NoWafAction

\* C24 witness: a request has reached the WAF stage and the creation of its
\* transaction has failed.
C24_Witness ==
  /\ plRes.n > 0 /\ plRes.created = "failed"
  /\ plRes.stages[Len(plRes.stages)] = "WAF"
  /\ plRes.waf = NoWafAction

\* C25 as stated: in the WAF stage, Block in Block mode answers locally with
\* the returned status, Redirect in Block mode answers locally with the
\* Location, and Block in Detect mode, Redirect in Detect mode and Pass
\* continue with the transaction kept on the context, which is the one the
\* response-header hook uses.
C25_WafStageReturnedStatus ==
  (plRes.n > 0 /\ plRes.created = "ok") =>
    /\ (plRes.waf.kind = "Block" /\ plCfg.waf = "Block") =>
         /\ plRes.outcome = "waf-block" /\ plRes.status = plRes.waf.status
    /\ (plRes.waf.kind = "Redirect" /\ plCfg.waf = "Block") =>
         /\ plRes.outcome = "waf-redirect" /\ plRes.location = plRes.waf.url
    /\ (plCfg.waf = "Detect" \/ plRes.waf.kind = "Pass") =>
         /\ plRes.outcome = "forward"
         /\ plRes.waf_tx = "kept" /\ plRes.tx_id = plRes.n
         /\ plRes.resp.pc = "done" =>
              (plRes.resp.hook # "none" /\ plRes.resp.hook_tx = plRes.tx_id)

\* C25 amended: the same, the local answer to Block having the returned
\* status when it is a status code (100..999) and 403 otherwise, and the
\* local answer to Redirect the returned status when it is one and 302
\* otherwise.
C25_WafStage ==
  (plRes.n > 0 /\ plRes.created = "ok") =>
    /\ (plRes.waf.kind = "Block" /\ plCfg.waf = "Block") =>
         /\ plRes.outcome = "waf-block"
         /\ plRes.status = IF plRes.waf.status \in 100 .. 999
                             THEN plRes.waf.status ELSE 403
    /\ (plRes.waf.kind = "Redirect" /\ plCfg.waf = "Block") =>
         /\ plRes.outcome = "waf-redirect" /\ plRes.location = plRes.waf.url
         /\ plRes.status = IF plRes.waf.status \in 100 .. 999
                             THEN plRes.waf.status ELSE 302
    /\ (plCfg.waf = "Detect" \/ plRes.waf.kind = "Pass") =>
         /\ plRes.outcome = "forward"
         /\ plRes.waf_tx = "kept" /\ plRes.tx_id = plRes.n
         /\ plRes.resp.pc = "done" =>
              (plRes.resp.hook # "none" /\ plRes.resp.hook_tx = plRes.tx_id)

\* C25 witness: in Detect mode the engine answered the request headers
\* with Block, the request was forwarded, and the response-header hook has
\* run on the transaction kept on the context.
C25_Witness ==
  /\ plRes.n > 0 /\ plRes.created = "ok" /\ plCfg.waf = "Detect"
  /\ plRes.waf.kind = "Block" /\ plRes.outcome = "forward"
  /\ plRes.resp.pc = "done" /\ plRes.resp.hook_tx = plRes.tx_id

\* C26: when the weighted list has length n > 0, any n selections made
\* with consecutive counter values, by whatever callers in whatever order,
\* returned each server exactly weight times, and no selection returned a
\* server of weight 0.
C26_WeightedRoundRobin ==
  Len(usWeighted) > 0 =>
    /\ \A v \in 0 .. (2 ^ UsizeBits) - Len(usWeighted) :
         (\A k \in 0 .. Len(usWeighted) - 1 : \E r \in usDone : r.val = v + k) =>
           \A i \in 1 .. Len(usCfg.servers) :
             Cardinality({ r \in usDone :
                             r.val \in v .. v + Len(usWeighted) - 1 /\ r.server = i })
               = usCfg.servers[i].weight
    /\ \A r \in usDone : usCfg.servers[r.server].weight # 0

\* C26 witness: two servers of weight 0, and two selections made with the
\* counter values 0 and 1 by two callers that were in select together.
C26_Witness ==
  /\ Len(usCfg.servers) = 2 /\ \A i \in 1 .. 2 : usCfg.servers[i].weight = 0
  /\ \A v \in {0, 1} : \E r \in usDone : r.val = v
  /\ \A t \in Threads : usThr[t].pc = "idle" /\ usThr[t].res \notin {"none", "ConnectProxyFailure"}
  /\ usThr["t1"].res # usThr["t2"].res

\* C27: a caller whose upstream exists gets no server, and its request
\* fails with a connection error, exactly when the upstream has no servers
\* or every server has weight 0.
C27_NoneIffNoWeight ==
  \A t \in Threads :
    (usThr[t].pc = "idle" /\ usThr[t].res # "none" /\ usThr[t].route = usCfg.name) =>
      (usThr[t].res = "ConnectProxyFailure"
         <=> \A i \in 1 .. Len(usCfg.servers) : usCfg.servers[i].weight = 0)

\* C27 witness: a caller has been given the address of a server of an
\* upstream all of whose servers have weight 0.
C27_Witness ==
  /\ usCfg.servers # << >>
  /\ \A i \in 1 .. Len(usCfg.servers) : usCfg.servers[i].weight = 0
  /\ \E t \in Threads : usThr[t].pc = "idle" /\ usThr[t].route = usCfg.name
                          /\ usThr[t].res \notin {"none", "ConnectProxyFailure"}

StaleBucket(ip) ==
  ip \in DOMAIN buckets /\ clock - buckets[ip].last_refill >= TbStaleSecs * TicksPerSec
StaleBotSession(ip) ==
  /\ ip \in DOMAIN sessions
  /\ clock - sessions[ip].last_seen >= botCfg.js_challenge.ttl_secs * TicksPerSec
StaleScSession(ip) ==
  /\ scSessions[ip] # NoSession
  /\ clock - scSessions[ip].last_seen >= scCfg.captcha.ttl_secs * TicksPerSec

\* C30: while the proxy runs, an entry of the rate-limit map, of the bot
\* sessions or of the scraping sessions that is idle past its eviction
\* threshold is eventually removed.
C30_IdleEntriesEvicted ==
  /\ \A ip \in BotClientIps : StaleBucket(ip) ~> ~ StaleBucket(ip)
  /\ \A ip \in BotClientIps : StaleBotSession(ip) ~> ~ StaleBotSession(ip)
  /\ \A ip \in ScIps : StaleScSession(ip) ~> ~ StaleScSession(ip)

\* C30 witness: the cleanup thread has emptied the rate-limit map after
\* the idle period, and the bot session of the same client is still there.
C30_Witness ==
  \E ip \in BotClientIps :
    /\ StaleBotSession(ip) /\ ip \notin DOMAIN buckets
    /\ plRes.n > 0 /\ plRes.client_ip = ip /\ "RateCheck" \in { plRes.stages[i] : i \in DOMAIN plRes.stages }
    /\ tbCl.pc = "idle"

\* The entry of key in a limiter's map, or none
LmEntry(map, key) == IF key \in DOMAIN map THEN <<map[key]>> ELSE << >>

\* C31: the rate-limit state is per key, and clones share it. A check of one
\* key returns leaving, in every limiter, the entry of every other key as it
\* was (absent or the same value) and hence the outcome of a later check of
\* that key at any instant as it would have been; and every RateLimiter
\* value, the clones included, holds for each key the one state that the
\* checks through any of the values have written.
C31_PerKeySharedByClones ==
  /\ [][\A h \in LmHandles :
          lmCall[h].pc = "locked" /\ lmCall'[h].pc = "idle" =>
            \A i \in DOMAIN lmArc : \A k2 \in LmKeys \ {lmCall[h].key} :
              /\ LmEntry(lmArc'[i].map, k2) = LmEntry(lmArc[i].map, k2)
              /\ \A now \in clock .. LmMaxTicks + 2 * TicksPerSec :
                   LimiterCheck(lmArc'[i], k2, now).ok = LimiterCheck(lmArc[i], k2, now).ok]_vars
  /\ [](\A h \in LmHandles : lmRef[h] # 0 => lmArc[lmRef[h]].map = lmOut.entries)

\* C31 witness: with both keys in the map and checks made through both
\* values, a check of client-a is denied.
C31_Witness ==
  /\ lmOut.key = "client-a" /\ ~ lmOut.ok
  /\ lmOut.by = LmHandles
  /\ "client-b" \in DOMAIN lmOut.entries
  /\ \A h \in LmHandles : lmRef[h] # 0

\* C32: a reload_from_config call that returned an error has left both
\* lists as they were when it was called.
C32_FailedReloadKeepsLists ==
  rl.pc = "idle" /\ rl.err =>
    blocklist = rl.old.blocklist /\ allowlist = rl.old.allowlist

\* C32 witness: a reload has returned an error after its blocklist file
\* loaded, and the blocklist is no longer the one from before the call.
C32_Witness ==
  /\ rl.pc = "idle" /\ rl.err
  /\ blocklist # rl.old.blocklist /\ allowlist = rl.old.allowlist

C34_WindowStartRecent ==
  [][\A t \in Threads :
       swThr[t].pc = "locked" /\ swThr'[t].pc = "idle" =>
         /\ swThr[t].key \in DOMAIN windows'
         /\ DurationSince(swThr[t].now, windows'[swThr[t].key].window_start) < SwWindow
         /\ DurationSince(swThr[t].now, windows'[swThr[t].key].window_start) < 2 * SwWindow]_vars

\* C34 witness: a check has returned that found its key idle for two
\* windows or more and moved window_start by whole windows up to less than
\* a window before its now.
C34_Witness ==
  \E k \in DOMAIN windows :
    /\ swHist[k].at >= 2 * SwWindow
    /\ windows[k].window_start > 0 /\ windows[k].window_start % SwWindow = 0
    /\ windows[k].previous_count = 0
    /\ swHist[k].at - windows[k].window_start < SwWindow
    /\ swHist[k].at > windows[k].window_start

\* C35: every sliding-window check that has been called returns, for
\* every window_secs the constructor accepts and every gap between
\* window_start and now.
C35_CheckTerminates ==
  \A t \in SwThreads : swThr[t].pc # "idle" ~> swThr[t].pc = "idle"

\* C35 witness: a limiter built with window_secs = 0 is in the rotation
\* loop of a check with window_start equal to the call's now, and the
\* condition of the loop holds: an iteration adds nothing to window_start.
C35_Witness ==
  \E t \in SwThreads :
    /\ swCfg.window_secs = 0 /\ swThr[t].pc = "rotating"
    /\ swThr[t].key \in DOMAIN windows
    /\ windows[swThr[t].key].window_start = swThr[t].now
    /\ DurationSince(swThr[t].now, windows[swThr[t].key].window_start) >= SwWindow

\* C36: in every session, unique_path_count is the number of stored path
\* hashes and is at most request_count; and each record_request adds one
\* to request_count, and adds to unique_path_count nothing when the hash of
\* its path is stored already (a repeated path) and one otherwise.
C36_UniquePathCount ==
  /\ [](\A ip \in ScIps :
          scSessions[ip] # NoSession =>
            /\ scSessions[ip].unique_path_count = Cardinality(scSessions[ip].path_hashes)
            /\ scSessions[ip].unique_path_count <= scSessions[ip].request_count)
  /\ [][\A ip \in ScIps :
          scRes'.pc = "recorded" /\ scRes'.ip = ip /\ scSessions'[ip] # scSessions[ip] =>
            LET before == ScEntry(ip)
                after  == scSessions'[ip]
            IN  /\ after.request_count = before.request_count + 1
                /\ after.unique_path_count =
                     IF path_hash(scRes'.path) \in before.path_hashes
                       THEN before.unique_path_count
                       ELSE before.unique_path_count + 1]_vars

\* C36 witness: a session has recorded three requests, the last one of
\* /page again, and counts two unique paths.
C36_Witness ==
  \E ip \in ScIps :
    /\ scRes.pc = "recorded" /\ scRes.path = "/page"
    /\ scSessions[ip] # NoSession
    /\ scSessions[ip].request_count = 3 /\ scSessions[ip].unique_path_count = 2
    /\ scSessions[ip].path_hashes = {path_hash("/page"), path_hash("/p21")}

\* The admissions in a key's history that fell within the interval from
\* instant a to instant b
TbAdmittedIn(k, a, b) ==
  Cardinality({ i \in DOMAIN tbHist[k].log : tbHist[k].log[i] >= a /\ tbHist[k].log[i] <= b })

\* C37: for every key and every interval of time, of length T seconds, the
\* checks of the key admitted within the interval are at most burst + rps * T,
\* whatever the interleaving of the calling threads.
C37_AdmittedInInterval ==
  \A k \in DOMAIN tbHist :
    \A i \in DOMAIN tbHist[k].log, j \in DOMAIN tbHist[k].log :
      LET a == tbHist[k].log[i]
          b == tbHist[k].log[j]
      IN  a <= b =>
            TbAdmittedIn(k, a, b) * TicksPerSec <= tbCfg.burst * TicksPerSec + tbCfg.rps * (b - a)

\* C37 witness: with rps = 1 and burst = 1, three checks of a key have been
\* admitted within one second and no cleanup has removed the key.
C37_Witness ==
  \E k \in DOMAIN tbHist :
    /\ tbCfg.rps = 1 /\ tbCfg.burst = 1
    /\ Len(tbHist[k].log) = 3
    /\ tbHist[k].log[3] - tbHist[k].log[1] <= TicksPerSec
    /\ k \in DOMAIN buckets /\ ~ IdleTaken

\* C39: cleanup is transparent. The latest check of every key had the
\* outcome that the same check has in a limiter given the same checks at
\* the same instants whose cleanup never runs.
C39_CleanupTransparent ==
  \A k \in DOMAIN tbHist : tbHist[k].res = tbHist[k].twinRes

\* C39 witness: a key whose bucket was empty has been evicted after 300 s
\* idle, and its next check is admitted from the new full bucket while the
\* bucket that was never evicted, refilled over the idle period, denies it.
C39_Witness ==
  \E k \in DOMAIN tbHist :
    /\ tbHist[k].res = "allow" /\ tbHist[k].twinRes = "deny"
    /\ k \in DOMAIN buckets /\ buckets[k].tokens = (tbCfg.burst - 1) * OneToken
    /\ tbHist[k].twin[1].tokens < OneToken
    /\ IdleTaken

\* C38: a request forwarded to the upstream of a route that has WAF enabled in
\* Block mode, the engine being initialised and the client not allowlisted,
\* had its request headers evaluated by a WAF transaction that returned Pass;
\* this includes the requests that match no route.
C38_ForwardedWasEvaluated ==
  (rtRes.pc = "forwarded" /\ rtCfg.engine /\ rtRes.ip_action # "Allow")
    => \A i \in 1 .. Len(rtCfg.routes) :
         (/\ rtCfg.routes[i].upstream = rtRes.upstream
          /\ rtCfg.routes[i].waf.enabled /\ rtCfg.routes[i].waf.mode = "Block")
           => rtRes.waf = "Pass"

\* A request that matches no route is forwarded, unevaluated, to the upstream
\* of the only route, which has WAF enabled in Block mode.
C38_Witness ==
  /\ rtRes.pc = "forwarded" /\ rtCfg.engine /\ rtRes.ip_action = "None"
  /\ Len(rtCfg.routes) = 1 /\ rtRes.route_index = 0
  /\ rtCfg.routes[1].waf.enabled /\ rtCfg.routes[1].waf.mode = "Block"
  /\ rtRes.upstream = rtCfg.routes[1].upstream
  /\ rtRes.waf = "none"

\* C40: a client whose requests are each more than one second apart gets
\* the high request rate term on none of its requests, its first ones
\* included.
C40_SpacedNeverFast ==
  (scRes.pc = "recorded" /\ scRes.spaced) => ~ scRes.rate_term

\* The second request of a client, 1.5 seconds after its first, received the
\* term: 2 requests in 1.5 seconds.
C40_Witness ==
  /\ scRes.pc = "recorded" /\ scRes.spaced /\ scRes.rate_term
  /\ scSessions[scRes.ip].request_count = 2
  /\ DurationSince(scSessions[scRes.ip].last_seen, scSessions[scRes.ip].first_seen)
       = TicksPerSec + 1

=============================================================================
